---- MODULE Spec2Model ----
(***************************************************************************)
(* State-machine model of the DSP core of the JUCE tutorial repository:    *)
(*   - SpectrumAnalyzer (Source/Visualization/SpectrumAnalyzer.h)          *)
(*   - MultiBandEQ      (Source/AdvancedDSP/MultiBandEQ.h)                 *)
(*   - BiquadFilter     (Source/AdvancedDSP/BiquadFilter.h)                *)
(*   - LockFreeCircularBuffer, MemoryPool                                  *)
(*                      (Source/ModernCPP/ModernMemoryManagement.h)        *)
(*                                                                         *)
(* Floating-point quantities are kept in fixed point:                      *)
(*   decibel values in 1/DbScale dB, frequencies in 1/FreqScale Hz,        *)
(*   smoothing factors in 1/PctScale, the window in 1/WindowScale, filter  *)
(*   coefficients and linear gains in 1/CoefScale, Q in 1/QScale.          *)
(*   Vectors are sequences; source index i is element i+1.                 *)
(***************************************************************************)
EXTENDS Integers, Sequences, FiniteSets, TLC

VARIABLES
    analyzer,   \* the SpectrumAnalyzer object (its data members)
    probe,      \* history of the analyzer's input stream since the last reset
    eq,         \* the MultiBandEQ object (bands, filters, sampleRate, bypassed)
    audio       \* the last buffer handed to MultiBandEQ::processBlock, before/after

vars == <<analyzer, probe, eq, audio>>

----------------------------------------------------------------------------
(* Fixed-point units                                                       *)

DbScale == 1000
FreqScale == 256
PctScale == 100
WindowScale == 1000
CoefScale == 1000
QScale == 1000

(* Bounds of the model                                                     *)

MaxOrder == 4      \* FFT orders 2 and MaxOrder
MaxBlock == 4      \* longest audio block handed to processAudioBlock
MaxPasses == 4     \* performFFT passes in one run
MaxConfig == 2     \* configuration calls (prepare, setFFTSize, ...) in one run
PeakOrder == 7     \* FFT order of the analyzer driven pass by pass
MaxEqConfig == 1   \* equalizer calls other than setBandEnabled and processBlock
MaxToggles == 5    \* setBandEnabled calls in one run
MaxEqBlocks == 1   \* processBlock calls in one run
MaxUseConfig == 1  \* session: prepare, setBandParameters, setBandType calls
MaxUseToggles == 2 \* session: setBandEnabled calls
MaxUseBlocks == 2  \* session: processBlock calls
MaxUseResets == 1  \* session: reset calls
MaxQueryToggles == 5 \* queries: setBandEnabled calls
MaxTunings == 2    \* filter: prepare, setFilter, setCoefficients calls
MaxRuns == 2       \* filter: processSample and process calls
MaxPushes == 6     \* ring buffer: push calls of the producer thread
MaxPops == 5       \* ring buffer: pop calls of the consumer thread
MaxRingCalls == 8  \* ring buffer used by one thread: push and pop calls
MaxPoolCalls == 4  \* memory pool: allocate and reset calls
MaxThreadPasses == 2  \* two threads: performFFT passes of the audio thread
MaxReads == 1      \* two threads: getPeaks calls of the UI thread

Orders == {2, MaxOrder}
SampleRates == {44100, 96000}
SmoothingInputs == {0, 150}
GarbageFreqs == {0, 1000 * FreqScale}
Signals == {2, 3}
PeakSampleRates == {1600, 3200, 44100}
ToneSpacings == {3, 4}
ToneCounts == {1, 4, 12, 20}
TonePatterns == {1, 2, 3}
Shoulders == {0, 1, 2}
BlockLengths == {0, 1, MaxBlock}

----------------------------------------------------------------------------
(* Helpers                                                                 *)

Pow2(n) == 2 ^ n

Abs(x) == IF x < 0 THEN -x ELSE x

Max(x, y) == IF x < y THEN y ELSE x

Min(x, y) == IF y < x THEN y ELSE x

jlimit(lo, hi, v) == IF v < lo THEN lo ELSE IF hi < v THEN hi ELSE v

Fill(n, v) == [i \in 1..n |-> v]

Resize(vec, n, v) == [i \in 1..n |-> IF i <= Len(vec) THEN vec[i] ELSE v]

----------------------------------------------------------------------------
(* SpectrumAnalyzer                                                        *)

MaxPeaks == 10
MinPeakSeparation == 100
MinPeakMagnitude == -40 * DbScale
MinusInfinityDb == -100 * DbScale
PeakDecay == 999

HannWindow(N) ==
    CASE N = 4  -> <<0, 750, 750, 0>>
      [] N = 8  -> <<0, 188, 611, 950, 950, 611, 188, 0>>
      [] N = 16 -> <<0, 43, 165, 345, 552, 750, 905, 989,
                     989, 905, 750, 552, 345, 165, 43, 0>>
      [] N = 32 -> <<0, 10, 41, 90, 156, 236, 326, 424, 525, 625, 720, 806,
                     879, 937, 977, 997, 997, 977, 937, 879, 806, 720, 625,
                     525, 424, 326, 236, 156, 90, 41, 10, 0>>
      [] N = 64 -> <<0, 2, 10, 22, 39, 61, 87, 117, 151, 188, 229, 272, 317,
                     365, 413, 463, 512, 562, 611, 659, 706, 750, 792, 831,
                     867, 899, 927, 950, 970, 985, 994, 999, 999, 994, 985,
                     970, 950, 927, 899, 867, 831, 792, 750, 706, 659, 611,
                     562, 512, 463, 413, 365, 317, 272, 229, 188, 151, 117,
                     87, 61, 39, 22, 10, 2, 0>>
      [] OTHER  -> [i \in 1..N |->
                       (4 * WindowScale * (i - 1) * (N - i)) \div ((N - 1) * (N - 1))]

(* The spectrum the FFT engine and gainToDecibels deliver for one pass, in  *)
(* 1/DbScale dB, never below MinusInfinityDb.  The engine is a library; its *)
(* result is drawn from a small family: id 1 is a single tone in bin 2,    *)
(* id 2 two tones in bins 2 and 5, the later one louder.                   *)
SpectrumDb(id, nb) ==
    [i \in 1..nb |->
        IF id = 1
        THEN (IF i - 1 = 2 THEN -6 * DbScale ELSE -60 * DbScale)
        ELSE (IF i - 1 = 2 THEN -20 * DbScale
              ELSE IF i - 1 = 5 THEN -10 * DbScale
              ELSE MinusInfinityDb)]

SpectrumAnalyzerCtor(fftOrder) ==
    LET N == Pow2(fftOrder) IN
    [ fftSize             |-> N,
      inputBufferIndex    |-> 0,
      samplesUntilNextFFT |-> 0,
      sampleRate          |-> 44100,
      smoothing           |-> 80,
      peakHoldEnabled     |-> TRUE,
      minFrequency        |-> 20 * FreqScale,
      maxFrequency        |-> 20000 * FreqScale,
      minMagnitude        |-> -80 * DbScale,
      maxMagnitude        |-> 0,
      fftBuffer           |-> Fill(N * 2, 0),
      frequencyBins       |-> Fill(N \div 2, 0),
      smoothedBins        |-> Fill(N \div 2, 0),
      window              |-> HannWindow(N),
      inputBuffer         |-> Fill(N, 0),
      peakHoldBins        |-> << >>,
      binFrequencies      |-> << >>,
      peaks               |-> << >>,
      timerRunning        |-> TRUE ]

reset(a) ==
    [a EXCEPT !.smoothedBins        = Fill(Len(a.smoothedBins), a.minMagnitude),
              !.inputBuffer         = Fill(Len(a.inputBuffer), 0),
              !.peakHoldBins        = Fill(a.fftSize \div 2, a.minMagnitude),
              !.inputBufferIndex    = 0,
              !.samplesUntilNextFFT = 0,
              !.peaks               = << >>]

prepare(a, sr) ==
    reset([a EXCEPT !.sampleRate     = sr,
                    !.binFrequencies =
                        [i \in 1..(a.fftSize \div 2) |->
                            ((i - 1) * sr * FreqScale) \div a.fftSize]])

stopTimer(a) == [a EXCEPT !.timerRunning = FALSE]

startTimer(a) == [a EXCEPT !.timerRunning = TRUE]

(* Lines 114-136, statement by statement: the object after each statement  *)
(* of setFFTSize, the last entry being the object when the call returns.   *)
setFFTSizeStoppingLate(a, newFFTOrder) ==
    LET N  == Pow2(newFFTOrder)
        s1 == [a  EXCEPT !.fftSize       = N]
        s2 == [s1 EXCEPT !.fftBuffer     = Resize(s1.fftBuffer, N * 2, 0)]
        s3 == stopTimer(s2)
        s4 == [s3 EXCEPT !.frequencyBins = Resize(s3.frequencyBins, N \div 2, 0)]
        s5 == [s4 EXCEPT !.smoothedBins  = Resize(s4.smoothedBins, N \div 2, 0)]
        s6 == [s5 EXCEPT !.inputBuffer   = Resize(s5.inputBuffer, N, 0)]
        s7 == [s6 EXCEPT !.window        = HannWindow(N)]
        s8 == reset(s7)
        s9 == startTimer(s8)
    IN <<s1, s2, s3, s4, s5, s6, s7, s8, s9>>

setFFTSizeSteps(a, newFFTOrder) ==
    LET N  == Pow2(newFFTOrder)
        s1 == stopTimer(a)
        s2 == [s1 EXCEPT !.fftSize       = N]
        s3 == [s2 EXCEPT !.fftBuffer     = Resize(s2.fftBuffer, N * 2, 0)]
        s4 == [s3 EXCEPT !.frequencyBins = Resize(s3.frequencyBins, N \div 2, 0)]
        s5 == [s4 EXCEPT !.smoothedBins  = Resize(s4.smoothedBins, N \div 2, 0)]
        s6 == [s5 EXCEPT !.inputBuffer   = Resize(s5.inputBuffer, N, 0)]
        s7 == [s6 EXCEPT !.window        = HannWindow(N)]
        s8 == reset(s7)
        s9 == startTimer(s8)
    IN <<s1, s2, s3, s4, s5, s6, s7, s8, s9>>

setFFTSize(a, newFFTOrder) ==
    LET steps == setFFTSizeSteps(a, newFFTOrder) IN steps[Len(steps)]

setSmoothing(a, smoothingFactor) ==
    [a EXCEPT !.smoothing = jlimit(0, 99, smoothingFactor)]

setPeakHold(a, enabled) ==
    IF ~enabled
    THEN [a EXCEPT !.peakHoldEnabled = enabled,
                   !.peakHoldBins    = Fill(a.fftSize \div 2, MinusInfinityDb)]
    ELSE [a EXCEPT !.peakHoldEnabled = enabled]

(* binFrequencies[i]; a read past the end of the vector yields garbage g.   *)
ReadBinFrequency(a, i, g) ==
    IF i < Len(a.binFrequencies) THEN a.binFrequencies[i + 1] ELSE g

IsCandidateNotStrict(a, i, g) ==
    /\ a.smoothedBins[i + 1] > a.smoothedBins[i]
    /\ a.smoothedBins[i + 1] >= a.smoothedBins[i + 2]
    /\ a.smoothedBins[i + 1] > a.smoothedBins[i - 1]
    /\ a.smoothedBins[i + 1] > a.smoothedBins[i + 3]
    /\ a.smoothedBins[i + 1] > MinPeakMagnitude
    /\ ReadBinFrequency(a, i, g) >= a.minFrequency
    /\ ReadBinFrequency(a, i, g) <= a.maxFrequency

(* The condition of lines 238-244 for bin i (source index).                *)
IsCandidate(a, i, g) ==
    /\ a.smoothedBins[i + 1] > a.smoothedBins[i]
    /\ a.smoothedBins[i + 1] > a.smoothedBins[i + 2]
    /\ a.smoothedBins[i + 1] > a.smoothedBins[i - 1]
    /\ a.smoothedBins[i + 1] > a.smoothedBins[i + 3]
    /\ a.smoothedBins[i + 1] > MinPeakMagnitude
    /\ ReadBinFrequency(a, i, g) >= a.minFrequency
    /\ ReadBinFrequency(a, i, g) <= a.maxFrequency

TooCloseInclusive(f, accepted) ==
    \E k \in 1..Len(accepted) :
        Abs(f - accepted[k][1]) <= MinPeakSeparation * FreqScale

(* Lines 247-255: some accepted peak lies less than minPeakSeparation away. *)
TooClose(f, accepted) ==
    \E k \in 1..Len(accepted) :
        Abs(f - accepted[k][1]) < MinPeakSeparation * FreqScale

(* Lines 238-261: bin i joins the accepted list when it is a candidate and *)
(* no accepted peak is too close.                                          *)
ScanBin(a, i, g, accepted) ==
    IF IsCandidate(a, i, g) /\ ~TooClose(ReadBinFrequency(a, i, g), accepted)
    THEN Append(accepted, <<ReadBinFrequency(a, i, g), a.smoothedBins[i + 1]>>)
    ELSE accepted

(* Lines 236-262: the bins lo..hi-1 in ascending order.  The first half of *)
(* the range is evaluated before the second half continues from the list   *)
(* it accepted.                                                            *)
RECURSIVE ScanRange(_, _, _, _, _)
ScanRange(a, lo, hi, g, accepted) ==
    IF lo >= hi THEN accepted
    ELSE IF hi = lo + 1 THEN ScanBin(a, lo, g, accepted)
    ELSE LET mid   == (lo + hi) \div 2
             first == ScanRange(a, lo, mid, g, accepted)
         IN IF Len(first) >= 0 THEN ScanRange(a, mid, hi, g, first) ELSE first

ScanBins(a, i, g, accepted) ==
    ScanRange(a, i, Len(a.smoothedBins) - 2, g, accepted)

(* std::sort with comparator a.second > b.second.  The order of entries of *)
(* equal magnitude is unspecified: tieFirst selects one of the two stable  *)
(* outcomes.                                                               *)
RECURSIVE InsertPeak(_, _, _)
InsertPeak(sorted, p, tieFirst) ==
    IF sorted = << >>
    THEN <<p>>
    ELSE IF p[2] > Head(sorted)[2] \/ (tieFirst /\ p[2] = Head(sorted)[2])
         THEN <<p>> \o sorted
         ELSE <<Head(sorted)>> \o InsertPeak(Tail(sorted), p, tieFirst)

RECURSIVE SortPeaks(_, _)
SortPeaks(list, tieFirst) ==
    IF list = << >>
    THEN << >>
    ELSE InsertPeak(SortPeaks(Tail(list), tieFirst), Head(list), tieFirst)

KeepBottom(sorted) ==
    IF Len(sorted) > MaxPeaks
    THEN SubSeq(sorted, Len(sorted) - MaxPeaks + 1, Len(sorted))
    ELSE sorted

(* Lines 268-269: peaks.resize(10).                                        *)
KeepTop(sorted) ==
    IF Len(sorted) > MaxPeaks THEN SubSeq(sorted, 1, MaxPeaks) ELSE sorted

detectPeaks(a, g, tieFirst) ==
    [a EXCEPT !.peaks = KeepTop(SortPeaks(ScanBins(a, 2, g, << >>), tieFirst))]

WorkingBufferFromStart(a) ==
    [i \in 1..Len(a.fftBuffer) |->
        IF i <= a.fftSize
        THEN a.inputBuffer[i] * a.window[i]
        ELSE IF i <= a.fftSize * 2 THEN 0 ELSE a.fftBuffer[i]]

(* Lines 190-200: the windowed copy of the circular buffer, zero padded.   *)
WorkingBuffer(a) ==
    [i \in 1..Len(a.fftBuffer) |->
        IF i <= a.fftSize
        THEN a.inputBuffer[((a.inputBufferIndex + (i - 1)) % a.fftSize) + 1] * a.window[i]
        ELSE IF i <= a.fftSize * 2 THEN 0 ELSE a.fftBuffer[i]]

Smooth(old, magnitudeDb, s) ==
    (old * s + magnitudeDb * (PctScale - s)) \div PctScale

HoldPeak(held, magnitudeDb) ==
    Max((held * PeakDecay) \div 1000, magnitudeDb)

(* Lines 187-226.  magsDb is the dB spectrum of this pass.  fftBuffer keeps *)
(* the buffer as handed to the transform.                                  *)
performFFT(a, magsDb, g, tieFirst) ==
    LET nb   == a.fftSize \div 2
        held == IF a.peakHoldEnabled
                THEN Resize(a.peakHoldBins, Max(Len(a.peakHoldBins), nb), MinusInfinityDb)
                ELSE a.peakHoldBins
    IN detectPeaks(
        [a EXCEPT !.fftBuffer    = WorkingBuffer(a),
                  !.smoothedBins =
                      [i \in 1..Len(a.smoothedBins) |->
                          IF i <= nb
                          THEN Smooth(a.smoothedBins[i], magsDb[i], a.smoothing)
                          ELSE a.smoothedBins[i]],
                  !.peakHoldBins =
                      [i \in 1..Len(held) |->
                          IF a.peakHoldEnabled /\ i <= nb
                          THEN HoldPeak(held[i], magsDb[i])
                          ELSE held[i]]],
        g, tieFirst)

(* The loop test of line 81: ++samplesUntilNextFFT >= fftSize / 4.         *)
FFTDueLate(count, N) == count > N \div 4

FFTDue(count, N) == count >= N \div 4

(* Lines 77-78: store the sample at the write cursor, then advance it.     *)
WriteSampleAfterAdvance(a, x) ==
    [a EXCEPT !.inputBuffer[((a.inputBufferIndex + 1) % a.fftSize) + 1] = x,
              !.inputBufferIndex = (a.inputBufferIndex + 1) % a.fftSize]

WriteSample(a, x) ==
    [a EXCEPT !.inputBuffer[a.inputBufferIndex + 1] = x,
              !.inputBufferIndex = (a.inputBufferIndex + 1) % a.fftSize]

(* Lines 74-86 for the samples of one block; spectra holds the spectrum id *)
(* of each pass still to come.  Returns the analyzer and the passes run.   *)
RECURSIVE ProcessSamples(_, _, _, _, _, _)
ProcessSamples(a, samples, spectra, g, tieFirst, done) ==
    IF samples = << >>
    THEN [a |-> a, passes |-> done]
    ELSE LET w == [WriteSample(a, Head(samples))
                      EXCEPT !.samplesUntilNextFFT = a.samplesUntilNextFFT + 1]
         IN IF FFTDue(w.samplesUntilNextFFT, w.fftSize)
            THEN ProcessSamples(
                     performFFT([w EXCEPT !.samplesUntilNextFFT = 0],
                                SpectrumDb(Head(spectra), w.fftSize \div 2),
                                g, tieFirst),
                     Tail(samples), Tail(spectra), g, tieFirst, done + 1)
            ELSE ProcessSamples(w, Tail(samples), spectra, g, tieFirst, done)

processAudioBlock(a, samples, spectra, g, tieFirst) ==
    ProcessSamples(a, samples, spectra, g, tieFirst, 0)

(* How many passes a block of n samples triggers: the counter of line 81   *)
(* run on its own.                                                         *)
RECURSIVE PassesDue(_, _, _)
PassesDue(count, N, n) ==
    IF n = 0 THEN 0
    ELSE IF FFTDue(count + 1, N)
         THEN 1 + PassesDue(0, N, n - 1)
         ELSE PassesDue(count + 1, N, n - 1)

----------------------------------------------------------------------------
(* BiquadFilter                                                            *)

FilterTypes ==
    {"LowPass", "HighPass", "BandPass", "Notch", "AllPass",
     "LowShelf", "HighShelf", "Peak"}

(* a / b rounded to the nearest integer, b > 0.                            *)
RoundDiv(a, b) == (2 * a + b) \div (2 * b)

RECURSIVE SqrtSearch(_, _, _)
SqrtSearch(x, lo, hi) ==
    IF lo >= hi THEN lo
    ELSE LET mid == (lo + hi + 1) \div 2
         IN IF mid * mid <= x THEN SqrtSearch(x, mid, hi)
            ELSE SqrtSearch(x, lo, mid - 1)

(* std::sqrt of a value held in 1/CoefScale, result in 1/CoefScale.        *)
Sqrt(v) == SqrtSearch(v * CoefScale, 0, 46340)

(* std::sin and std::cos of omega = twoPi * frequency / currentSampleRate, *)
(* in 1/CoefScale, for the frequencies and sample rates of the model.      *)
SinOmega(frequency, sr) ==
    CASE <<frequency, sr>> = <<20, 44100>>    -> 3
      [] <<frequency, sr>> = <<80, 44100>>    -> 11
      [] <<frequency, sr>> = <<250, 44100>>   -> 36
      [] <<frequency, sr>> = <<1000, 44100>>  -> 142
      [] <<frequency, sr>> = <<4000, 44100>>  -> 540
      [] <<frequency, sr>> = <<12000, 44100>> -> 990
      [] <<frequency, sr>> = <<20000, 44100>> -> 288
      [] <<frequency, sr>> = <<20, 48000>>    -> 3
      [] <<frequency, sr>> = <<80, 48000>>    -> 10
      [] <<frequency, sr>> = <<250, 48000>>   -> 33
      [] <<frequency, sr>> = <<1000, 48000>>  -> 131
      [] <<frequency, sr>> = <<4000, 48000>>  -> 500
      [] <<frequency, sr>> = <<12000, 48000>> -> 1000
      [] <<frequency, sr>> = <<20000, 48000>> -> 500

CosOmega(frequency, sr) ==
    CASE <<frequency, sr>> = <<20, 44100>>    -> 1000
      [] <<frequency, sr>> = <<80, 44100>>    -> 1000
      [] <<frequency, sr>> = <<250, 44100>>   -> 999
      [] <<frequency, sr>> = <<1000, 44100>>  -> 990
      [] <<frequency, sr>> = <<4000, 44100>>  -> 842
      [] <<frequency, sr>> = <<12000, 44100>> -> -138
      [] <<frequency, sr>> = <<20000, 44100>> -> -958
      [] <<frequency, sr>> = <<20, 48000>>    -> 1000
      [] <<frequency, sr>> = <<80, 48000>>    -> 1000
      [] <<frequency, sr>> = <<250, 48000>>   -> 999
      [] <<frequency, sr>> = <<1000, 48000>>  -> 991
      [] <<frequency, sr>> = <<4000, 48000>>  -> 866
      [] <<frequency, sr>> = <<12000, 48000>> -> 0
      [] <<frequency, sr>> = <<20000, 48000>> -> -866

(* std::cos(std::asin(s)) = sqrt(1 - s*s).                                 *)
CosAsin(sin_omega) == SqrtSearch(CoefScale * CoefScale - sin_omega * sin_omega, 0, CoefScale)

Coefficients(b0, b1, b2, a1, a2) ==
    [b0 |-> b0, b1 |-> b1, b2 |-> b2, a1 |-> a1, a2 |-> a2]

ZeroState == [x1 |-> 0, x2 |-> 0, y1 |-> 0, y2 |-> 0]

BiquadFilterCtor ==
    [ coeffs            |-> Coefficients(CoefScale, 0, 0, 0, 0),
      state             |-> ZeroState,
      currentSampleRate |-> 44100,
      maxBufferSize     |-> 512,
      currentQ          |-> 707 ]

(* x * (1 / d), x and d in 1/CoefScale.                                    *)
Normalised(x, d) == RoundDiv(x * CoefScale, d)

Times(x, y) == RoundDiv(x * y, CoefScale)

setLowPassCoefficients(c, alpha) ==
    LET d == CoefScale + alpha IN
    Coefficients(Normalised(RoundDiv(CoefScale - c, 2), d),
                 Normalised(CoefScale - c, d),
                 Normalised(RoundDiv(CoefScale - c, 2), d),
                 Normalised(-2 * c, d),
                 Normalised(CoefScale - alpha, d))

setHighPassCoefficients(c, alpha) ==
    LET d == CoefScale + alpha IN
    Coefficients(Normalised(RoundDiv(CoefScale + c, 2), d),
                 Normalised(-(CoefScale + c), d),
                 Normalised(RoundDiv(CoefScale + c, 2), d),
                 Normalised(-2 * c, d),
                 Normalised(CoefScale - alpha, d))

setBandPassCoefficients(s, alpha) ==
    LET d == CoefScale + alpha IN
    Coefficients(Normalised(alpha, d),
                 0,
                 Normalised(-alpha, d),
                 Normalised(-2 * CosAsin(s), d),
                 Normalised(CoefScale - alpha, d))

setPeakCoefficients(c, alpha, A) ==
    LET d == CoefScale + Normalised(alpha, A) IN
    Coefficients(Normalised(CoefScale + Times(alpha, A), d),
                 Normalised(-2 * c, d),
                 Normalised(CoefScale - Times(alpha, A), d),
                 Normalised(-2 * c, d),
                 Normalised(CoefScale - Normalised(alpha, A), d))

setLowShelfCoefficients(c, alpha, A, currentQ) ==
    LET beta == RoundDiv(Sqrt(A) * QScale, currentQ)
        up   == A + CoefScale
        dn   == A - CoefScale
        d    == up + Times(dn, c) + beta
    IN Coefficients(Normalised(Times(A, up - Times(dn, c) + beta), d),
                    Normalised(Times(2 * A, dn - Times(up, c)), d),
                    Normalised(Times(A, up - Times(dn, c) - beta), d),
                    Normalised(-2 * (dn + Times(up, c)), d),
                    Normalised(up + Times(dn, c) - beta, d))

setHighShelfCoefficients(c, alpha, A, currentQ) ==
    LET beta == RoundDiv(Sqrt(A) * QScale, currentQ)
        up   == A + CoefScale
        dn   == A - CoefScale
        d    == up - Times(dn, c) + beta
    IN Coefficients(Normalised(Times(A, up + Times(dn, c) + beta), d),
                    Normalised(Times(-2 * A, dn + Times(up, c)), d),
                    Normalised(Times(A, up + Times(dn, c) - beta), d),
                    Normalised(2 * (dn - Times(up, c)), d),
                    Normalised(up - Times(dn, c) - beta, d))

setNotchCoefficients(c, alpha) ==
    LET d == CoefScale + alpha IN
    Coefficients(Normalised(CoefScale, d),
                 Normalised(-2 * c, d),
                 Normalised(CoefScale, d),
                 Normalised(-2 * c, d),
                 Normalised(CoefScale - alpha, d))

setAllPassCoefficients(c, alpha) ==
    LET d == CoefScale + alpha IN
    Coefficients(Normalised(CoefScale - alpha, d),
                 Normalised(-2 * c, d),
                 Normalised(CoefScale + alpha, d),
                 Normalised(-2 * c, d),
                 Normalised(CoefScale - alpha, d))

(* Lines 180-216.  frequency in Hz, Q in 1/QScale, gain linear.            *)
setFilter(flt, type, frequency, Q, gain) ==
    LET sin_omega == SinOmega(frequency, flt.currentSampleRate)
        cos_omega == CosOmega(frequency, flt.currentSampleRate)
        alpha     == RoundDiv(sin_omega * QScale, 2 * Q)
        A         == Sqrt(gain)
    IN [flt EXCEPT
          !.currentQ = Q,
          !.coeffs =
              CASE type = "LowPass"   -> setLowPassCoefficients(cos_omega, alpha)
                [] type = "HighPass"  -> setHighPassCoefficients(cos_omega, alpha)
                [] type = "BandPass"  -> setBandPassCoefficients(sin_omega, alpha)
                [] type = "Peak"      -> setPeakCoefficients(cos_omega, alpha, A)
                [] type = "LowShelf"  -> setLowShelfCoefficients(cos_omega, alpha, A, Q)
                [] type = "HighShelf" -> setHighShelfCoefficients(cos_omega, alpha, A, Q)
                [] type = "Notch"     -> setNotchCoefficients(cos_omega, alpha)
                [] type = "AllPass"   -> setAllPassCoefficients(cos_omega, alpha)]

setCoefficientsClearing(flt, b0, b1, b2, a1, a2) ==
    [flt EXCEPT !.coeffs = Coefficients(b0, b1, b2, a1, a2), !.state = ZeroState]

(* Lines 170-178.                                                          *)
setCoefficients(flt, b0, b1, b2, a1, a2) ==
    [flt EXCEPT !.coeffs = Coefficients(b0, b1, b2, a1, a2)]

filterResetToDefault(flt) ==
    [flt EXCEPT !.state = ZeroState, !.coeffs = Coefficients(CoefScale, 0, 0, 0, 0)]

(* Lines 247-250.                                                          *)
filterReset(flt) == [flt EXCEPT !.state = ZeroState]

filterPrepare(flt, sr, maxBlockSize) ==
    filterReset([flt EXCEPT !.currentSampleRate = sr, !.maxBufferSize = maxBlockSize])

processSampleUnshifted(flt, input) ==
    LET output == RoundDiv(flt.coeffs.b0 * input + flt.coeffs.b1 * flt.state.x1
                             + flt.coeffs.b2 * flt.state.x2
                             - flt.coeffs.a1 * flt.state.y1
                             - flt.coeffs.a2 * flt.state.y2, CoefScale)
    IN [flt |-> [flt EXCEPT !.state = [x1 |-> input, x2 |-> flt.state.x2,
                                        y1 |-> output, y2 |-> flt.state.y2]],
        out |-> output]

(* Lines 233-245: the difference equation and the shift of the history.    *)
processSample(flt, input) ==
    LET output == RoundDiv(flt.coeffs.b0 * input + flt.coeffs.b1 * flt.state.x1
                             + flt.coeffs.b2 * flt.state.x2
                             - flt.coeffs.a1 * flt.state.y1
                             - flt.coeffs.a2 * flt.state.y2, CoefScale)
    IN [flt |-> [flt EXCEPT !.state = [x1 |-> input, x2 |-> flt.state.x1,
                                        y1 |-> output, y2 |-> flt.state.y1]],
        out |-> output]

(* Lines 227-230: samples[i] = processSample(samples[i]) for i from the    *)
(* given index up to numSamples - 1.                                       *)
RECURSIVE ProcessLoop(_, _, _, _)
ProcessLoop(flt, samples, i, numSamples) ==
    IF i >= numSamples THEN [flt |-> flt, samples |-> samples]
    ELSE LET r == processSample(flt, samples[i + 1]) IN
         ProcessLoop(r.flt, [samples EXCEPT ![i + 1] = r.out], i + 1, numSamples)

processFromOne(flt, samples, numSamples) == ProcessLoop(flt, samples, 1, numSamples)

(* Lines 225-231.                                                          *)
process(flt, samples, numSamples) == ProcessLoop(flt, samples, 0, numSamples)

(* std::complex<SampleType>, both parts in 1/CoefScale; NaN is the         *)
(* not-a-number that 0/0 gives and that every later operation keeps.       *)
Complex(re, im) == [re |-> re, im |-> im]

NaN == [nan |-> TRUE]

ComplexPlus(u, v) == Complex(u.re + v.re, u.im + v.im)

ComplexTimes(u, v) ==
    IF u = NaN \/ v = NaN THEN NaN
    ELSE Complex(Times(u.re, v.re) - Times(u.im, v.im),
                 Times(u.re, v.im) + Times(u.im, v.re))

ComplexScaled(c, u) == Complex(Times(c, u.re), Times(c, u.im))

(* n / d in 1/CoefScale for integers n and d > 0, digit by digit.          *)
Quotient(n, d) ==
    LET sign == IF n < 0 THEN -1 ELSE 1
        r0 == Abs(n) % d
        r1 == (10 * r0) % d
        r2 == (10 * r1) % d
    IN sign * (1000 * (Abs(n) \div d) + 100 * ((10 * r0) \div d)
                 + 10 * ((10 * r1) \div d) + (10 * r2) \div d)

(* u / v = u * conj(v) / |v|^2.                                            *)
ComplexOver(u, v) ==
    LET norm == v.re * v.re + v.im * v.im IN
    IF norm = 0 THEN NaN
    ELSE Complex(Quotient(u.re * v.re + u.im * v.im, norm),
                 Quotient(u.im * v.re - u.re * v.im, norm))

(* std::abs of a complex number.                                           *)
ComplexAbs(u) ==
    IF u = NaN THEN NaN ELSE Sqrt(Times(u.re, u.re) + Times(u.im, u.im))

(* Lines 253-263.                                                          *)
filterFrequencyResponse(flt, frequency) ==
    LET z  == Complex(CosOmega(frequency, flt.currentSampleRate),
                      SinOmega(frequency, flt.currentSampleRate))
        z2 == ComplexTimes(z, z)
        numerator ==
            ComplexPlus(Complex(flt.coeffs.b0, 0),
                ComplexPlus(ComplexScaled(flt.coeffs.b1, z),
                            ComplexScaled(flt.coeffs.b2, z2)))
        denominator ==
            ComplexPlus(Complex(CoefScale, 0),
                ComplexPlus(ComplexScaled(flt.coeffs.a1, z),
                            ComplexScaled(flt.coeffs.a2, z2)))
    IN ComplexOver(numerator, denominator)

----------------------------------------------------------------------------
(* MultiBandEQ                                                             *)

NumBands == 5

(* juce::Decibels::decibelsToGain for whole decibels -24..24, in           *)
(* 1/CoefScale.                                                            *)
DecibelsToGainTable ==
    <<63, 71, 79, 89, 100, 112, 126, 141, 158, 178, 200, 224, 251, 282, 316,
      355, 398, 447, 501, 562, 631, 708, 794, 891, 1000, 1122, 1259, 1413,
      1585, 1778, 1995, 2239, 2512, 2818, 3162, 3548, 3981, 4467, 5012, 5623,
      6310, 7079, 7943, 8913, 10000, 11220, 12589, 14125, 15849>>

decibelsToGain(dB) == DecibelsToGainTable[dB + 25]

Band(frequency, gain, Q, type, enabled) ==
    [frequency |-> frequency, gain |-> gain, Q |-> Q, type |-> type,
     enabled |-> enabled]

(* Lines 28-41 and 172-173.  bands and filters are indexed 0..NumBands-1.  *)
MultiBandEQCtor ==
    [ bands |->
          [i \in 0..(NumBands - 1) |->
              CASE i = 0 -> Band(80, 0, 707, "HighPass", TRUE)
                [] i = 1 -> Band(250, 0, 1000, "Peak", TRUE)
                [] i = 2 -> Band(1000, 0, 1000, "Peak", TRUE)
                [] i = 3 -> Band(4000, 0, 1000, "Peak", TRUE)
                [] i = 4 -> Band(12000, 0, 707, "LowPass", TRUE)],
      filters    |-> [i \in 0..(NumBands - 1) |-> BiquadFilterCtor],
      sampleRate |-> 44100,
      bypassed   |-> FALSE ]

(* Lines 175-184.                                                          *)
updateBand(e, bandIndex) ==
    IF bandIndex >= 0 /\ bandIndex < NumBands /\ e.sampleRate > 0
    THEN LET band == e.bands[bandIndex] IN
         [e EXCEPT !.filters[bandIndex] =
             setFilter(e.filters[bandIndex], band.type, band.frequency, band.Q,
                       decibelsToGain(band.gain))]
    ELSE e

RECURSIVE PrepareBands(_, _, _, _)
PrepareBands(e, i, sr, maxBlockSize) ==
    IF i >= NumBands THEN e
    ELSE PrepareBands(
             updateBand([e EXCEPT !.filters[i] =
                            filterPrepare(e.filters[i], sr, maxBlockSize)], i),
             i + 1, sr, maxBlockSize)

(* Lines 43-52.                                                            *)
eqPrepare(e, sr, maxBlockSize) ==
    PrepareBands([e EXCEPT !.sampleRate = sr], 0, sr, maxBlockSize)

(* Lines 78-87.  Q in 1/QScale.                                            *)
setBandParametersUnclamped(e, bandIndex, frequency, gain, Q) ==
    IF bandIndex >= 0 /\ bandIndex < NumBands
    THEN updateBand([e EXCEPT !.bands[bandIndex].frequency = jlimit(20, 20000, frequency),
                              !.bands[bandIndex].gain = jlimit(-24, 24, gain),
                              !.bands[bandIndex].Q = Min(10 * QScale, Q)],
                    bandIndex)
    ELSE e

setBandParameters(e, bandIndex, frequency, gain, Q) ==
    IF bandIndex >= 0 /\ bandIndex < NumBands
    THEN updateBand([e EXCEPT !.bands[bandIndex].frequency = jlimit(20, 20000, frequency),
                              !.bands[bandIndex].gain = jlimit(-24, 24, gain),
                              !.bands[bandIndex].Q = jlimit(QScale \div 10, 10 * QScale, Q)],
                    bandIndex)
    ELSE e

setBandEnabledClearing(e, bandIndex, enabled) ==
    IF bandIndex >= 0 /\ bandIndex < NumBands
    THEN [e EXCEPT !.bands[bandIndex].enabled = enabled,
                   !.filters[bandIndex].state = ZeroState]
    ELSE e

setBandEnabledClamped(e, bandIndex, enabled) ==
    [e EXCEPT !.bands[jlimit(0, NumBands - 1, bandIndex)].enabled = enabled]

(* Lines 89-95.                                                            *)
setBandEnabled(e, bandIndex, enabled) ==
    IF bandIndex >= 0 /\ bandIndex < NumBands
    THEN [e EXCEPT !.bands[bandIndex].enabled = enabled]
    ELSE e

(* Lines 97-104.                                                           *)
setBandType(e, bandIndex, type) ==
    IF bandIndex >= 0 /\ bandIndex < NumBands
    THEN updateBand([e EXCEPT !.bands[bandIndex].type = type], bandIndex)
    ELSE e

(* Lines 106-109.                                                          *)
getBand(e, index) == e.bands[jlimit(0, NumBands - 1, index)]

(* Lines 118-127: the product of the responses of the bands from index     *)
(* band upwards, enabled bands only.                                       *)
RECURSIVE TotalResponse(_, _, _, _)
TotalResponse(e, frequency, band, totalResponse) ==
    IF band >= NumBands THEN totalResponse
    ELSE IF e.bands[band].enabled
         THEN TotalResponse(e, frequency, band + 1,
                  ComplexTimes(totalResponse,
                               filterFrequencyResponse(e.filters[band], frequency)))
         ELSE TotalResponse(e, frequency, band + 1, totalResponse)

getFrequencyResponseOfAllBands(e, frequencies) ==
    LET all == [e EXCEPT !.bands = [b \in DOMAIN e.bands |->
                                       [e.bands[b] EXCEPT !.enabled = TRUE]]]
    IN [i \in 1..Len(frequencies) |->
           ComplexAbs(TotalResponse(all, frequencies[i], 0, Complex(CoefScale, 0)))]

(* Lines 112-133.                                                          *)
getFrequencyResponse(e, frequencies) ==
    [i \in 1..Len(frequencies) |->
        ComplexAbs(TotalResponse(e, frequencies[i], 0, Complex(CoefScale, 0)))]

RECURSIVE ResetFilters(_, _)
ResetFilters(e, i) ==
    IF i >= NumBands THEN e
    ELSE ResetFilters([e EXCEPT !.filters[i] = filterReset(e.filters[i])], i + 1)

eqResetOfEnabledBands(e) ==
    [e EXCEPT !.filters = [i \in DOMAIN e.filters |->
                              IF e.bands[i].enabled THEN filterReset(e.filters[i])
                              ELSE e.filters[i]]]

(* Lines 150-156.                                                          *)
eqReset(e) == ResetFilters(e, 0)

(* Lines 159-162.                                                          *)
setBypass(e, shouldBypass) == [e EXCEPT !.bypassed = shouldBypass]

(* Lines 65-71: one sample through the bands from index band upwards.      *)
(* Returns the filters and the processed sample.                           *)
RECURSIVE ThroughBands(_, _, _, _)
ThroughBands(bands, filters, band, x) ==
    IF band >= NumBands THEN [filters |-> filters, out |-> x]
    ELSE IF bands[band].enabled
         THEN LET r == processSample(filters[band], x) IN
              ThroughBands(bands, [filters EXCEPT ![band] = r.flt], band + 1, r.out)
         ELSE ThroughBands(bands, filters, band + 1, x)

CascadeIgnoringEnabled(bands, filters, x) ==
    ThroughBands([b \in DOMAIN bands |-> [bands[b] EXCEPT !.enabled = TRUE]],
                 filters, 0, x)

Cascade(bands, filters, x) == ThroughBands(bands, filters, 0, x)

(* Lines 60-74: the samples of one channel, in place.                      *)
RECURSIVE ProcessChannel(_, _, _, _)
ProcessChannel(e, data, sample, done) ==
    IF sample >= Len(data) THEN [e |-> e, data |-> done]
    ELSE LET r == Cascade(e.bands, e.filters, data[sample + 1]) IN
         ProcessChannel([e EXCEPT !.filters = r.filters], data, sample + 1,
                        Append(done, r.out))

(* Lines 54-76: every channel of the buffer, in channel order.             *)
RECURSIVE ProcessChannels(_, _, _, _)
ProcessChannels(e, buffer, channel, done) ==
    IF channel >= Len(buffer) THEN [e |-> e, buffer |-> done]
    ELSE LET r == ProcessChannel(e, buffer[channel + 1], 0, << >>) IN
         ProcessChannels(r.e, buffer, channel + 1, Append(done, r.data))

processBlock(e, buffer) == ProcessChannels(e, buffer, 0, << >>)

----------------------------------------------------------------------------
(* Specification of the analyzer: one thread constructs it and then calls  *)
(* prepare, setFFTSize, setSmoothing, setPeakHold and processAudioBlock.   *)
(* probe.consumed counts the samples since the last reset, the k-th of     *)
(* which has the value k; probe.passes counts performFFT passes since the  *)
(* last reset.  probe.signal names the test signal fed in this run.        *)

IdleEQ == [idle |-> TRUE]
IdleAudio == [idle |-> TRUE]

ProbeInit(signal) ==
    [consumed |-> 0, passes |-> 0, fftTotal |-> 0, configCalls |-> 0,
     signal |-> signal, prepared |-> FALSE, last |-> "construct"]

(* The tone (spectrum id) the input signal carries during the given pass   *)
(* of the run: signals 1 and 2 are steady, signal 3 alternates.            *)
ToneAt(signal, passNo) == IF signal = 3 THEN 1 + (passNo % 2) ELSE signal

InitSA ==
    /\ \E order \in Orders : analyzer = SpectrumAnalyzerCtor(order)
    /\ \E signal \in Signals : probe = ProbeInit(signal)
    /\ eq = IdleEQ
    /\ audio = IdleAudio

Configured(a, op) ==
    /\ probe.configCalls < MaxConfig
    /\ analyzer' = a
    /\ probe' = [probe EXCEPT !.configCalls = @ + 1, !.last = op]
    /\ UNCHANGED <<eq, audio>>

Restarted(a, op) ==
    /\ probe.configCalls < MaxConfig
    /\ analyzer' = a
    /\ probe' = [probe EXCEPT !.configCalls = @ + 1, !.last = op,
                              !.consumed = 0, !.passes = 0,
                              !.prepared = (@ \/ op = "prepare")]
    /\ UNCHANGED <<eq, audio>>

Prepare ==
    \E sr \in SampleRates : Restarted(prepare(analyzer, sr), "prepare")

SetFFTSize ==
    \E order \in Orders : Restarted(setFFTSize(analyzer, order), "setFFTSize")

SetSmoothing ==
    \E s \in SmoothingInputs : Configured(setSmoothing(analyzer, s), "setSmoothing")

SetPeakHold ==
    \E b \in BOOLEAN : Configured(setPeakHold(analyzer, b), "setPeakHold")

ProcessAudioBlock ==
    \E n \in BlockLengths :
        LET due == PassesDue(analyzer.samplesUntilNextFFT, analyzer.fftSize, n) IN
        /\ probe.fftTotal + due <= MaxPasses
        /\ \E g \in (IF due > 0 /\ Len(analyzer.binFrequencies) < analyzer.fftSize \div 2
                     THEN GarbageFreqs ELSE {0}),
              tieFirst \in (IF due > 0 THEN BOOLEAN ELSE {TRUE}) :
              LET r == processAudioBlock(analyzer,
                                         [k \in 1..n |-> probe.consumed + k],
                                         [k \in 1..due |-> ToneAt(probe.signal, probe.fftTotal + k)],
                                         g, tieFirst)
              IN /\ analyzer' = r.a
                 /\ probe' = [probe EXCEPT !.consumed = @ + n,
                                           !.passes = @ + r.passes,
                                           !.fftTotal = @ + r.passes,
                                           !.last = "processAudioBlock"]
        /\ UNCHANGED <<eq, audio>>

NextSA ==
    \/ Prepare
    \/ SetFFTSize
    \/ SetSmoothing
    \/ SetPeakHold
    \/ ProcessAudioBlock

SpecSA == InitSA /\ [][NextSA]_vars

----------------------------------------------------------------------------
(* Properties of the analyzer's framing                                    *)

Hop == analyzer.fftSize \div 4

\* C1: with fftSize >= 4, after N samples since the last reset exactly
\* floor(N / (fftSize/4)) performFFT passes have run, however the samples
\* were split into blocks, and between calls samplesUntilNextFFT lies in
\* [0, fftSize/4).
C1_PassPerQuarterFrame ==
    analyzer.fftSize >= 4 =>
        /\ probe.passes = probe.consumed \div Hop
        /\ analyzer.samplesUntilNextFFT >= 0
        /\ analyzer.samplesUntilNextFFT < Hop
        /\ analyzer.samplesUntilNextFFT = probe.consumed % Hop

C1_Witness ==
    /\ probe.last = "processAudioBlock"
    /\ analyzer.fftSize >= 16
    /\ probe.passes >= 2
    /\ analyzer.samplesUntilNextFFT > 0

\* C2: the write cursor stays inside the buffer, the buffer has fftSize
\* entries, the k-th sample since the last reset sits at index (k-1) mod
\* fftSize until it is overwritten fftSize samples later, and so after
\* k >= fftSize samples the buffer holds exactly the fftSize latest ones.
C2_CircularBuffer ==
    LET N == analyzer.fftSize
        k == probe.consumed
    IN /\ analyzer.inputBufferIndex >= 0
       /\ analyzer.inputBufferIndex < N
       /\ Len(analyzer.inputBuffer) = N
       /\ analyzer.inputBufferIndex = k % N
       /\ \A j \in 1..k :
             j > k - N => analyzer.inputBuffer[((j - 1) % N) + 1] = j
       /\ k < N => \A i \in (k + 1)..N : analyzer.inputBuffer[i] = 0
       /\ k >= N => {analyzer.inputBuffer[i] : i \in 1..N} = (k - N + 1)..k

C2_Witness ==
    /\ probe.last = "processAudioBlock"
    /\ analyzer.fftSize >= 16
    /\ probe.consumed > analyzer.fftSize
    /\ analyzer.inputBufferIndex > 0

\* C3: after a prepare and any further prepare and setFFTSize calls,
\* binFrequencies has fftSize/2 entries and binFrequencies[i] equals
\* i * sampleRate / fftSize for the current sampleRate and fftSize.
C3_BinFrequenciesCurrent ==
    (probe.prepared /\ probe.last \in {"prepare", "setFFTSize"}) =>
        /\ Len(analyzer.binFrequencies) = analyzer.fftSize \div 2
        /\ \A i \in 0..(Len(analyzer.binFrequencies) - 1) :
              analyzer.binFrequencies[i + 1] =
                  (i * analyzer.sampleRate * FreqScale) \div analyzer.fftSize

----------------------------------------------------------------------------
(* Specification of peak detection: an analyzer of order PeakOrder with    *)
(* smoothing 0 and peak hold off is prepared and then driven one           *)
(* performFFT pass at a time, each pass with a                             *)
(* spectrum of tones on a quiet floor.  probe.accepted records the peaks   *)
(* accepted by the scan of the latest pass, before sorting and truncation. *)

ToneLevel(pattern, j) ==
    CASE (j * pattern) % 4 = 0 -> -30 * DbScale - j
      [] (j * pattern) % 4 = 1 -> -10 * DbScale
      [] (j * pattern) % 4 = 2 -> -50 * DbScale
      [] OTHER                 -> -10 * DbScale - j

(* count tones, spacing bins apart, the first in bin 2; an even tone with  *)
(* shoulder s > 0 has its level repeated s bins above it.                  *)
ToneSpectrum(nb, spacing, count, pattern, shoulder) ==
    [i \in 1..nb |->
        LET b == i - 1
            j == (b - 2) \div spacing
            r == (b - 2) % spacing
        IN IF b < 2 \/ j >= count THEN -60 * DbScale
           ELSE IF r = 0 THEN ToneLevel(pattern, j)
           ELSE IF r = shoulder /\ j % 2 = 0 THEN ToneLevel(pattern, j)
           ELSE -60 * DbScale]

InitPeaks ==
    /\ analyzer = setPeakHold(setSmoothing(SpectrumAnalyzerCtor(PeakOrder), 0), FALSE)
    /\ probe = [accepted |-> << >>, last |-> "construct"]
    /\ eq = IdleEQ
    /\ audio = IdleAudio

PeaksPrepare ==
    /\ \E sr \in PeakSampleRates : analyzer' = prepare(analyzer, sr)
    /\ probe' = [accepted |-> << >>, last |-> "prepare"]
    /\ UNCHANGED <<eq, audio>>

PeaksPass ==
    /\ Len(analyzer.binFrequencies) >= analyzer.fftSize \div 2
    /\ \E spacing \in ToneSpacings, count \in ToneCounts,
          pattern \in TonePatterns, shoulder \in Shoulders, tieFirst \in BOOLEAN :
          analyzer' = performFFT(analyzer,
                                 ToneSpectrum(analyzer.fftSize \div 2,
                                              spacing, count, pattern, shoulder),
                                 0, tieFirst)
    /\ probe' = [accepted |-> ScanBins(analyzer', 2, 0, << >>), last |-> "performFFT"]
    /\ UNCHANGED <<eq, audio>>

NextPeaks ==
    \/ PeaksPrepare
    \/ PeaksPass

SpecPeaks == InitPeaks /\ [][NextPeaks]_vars

----------------------------------------------------------------------------
(* Properties of peak detection                                            *)

PeakSet == {analyzer.peaks[k] : k \in 1..Len(analyzer.peaks)}

AcceptedSet == {probe.accepted[k] : k \in 1..Len(probe.accepted)}

(* Bin i (source index) is a strict local maximum over i-2..i+2, louder    *)
(* than -40 dB, inside the displayed frequency range.                      *)
QualifiesAsPeak(i) ==
    LET sb == analyzer.smoothedBins
        f  == analyzer.binFrequencies[i + 1]
    IN /\ i >= 2
       /\ i < Len(sb) - 2
       /\ \A d \in {-2, -1, 1, 2} : sb[i + 1] > sb[i + 1 + d]
       /\ sb[i + 1] > -40 * DbScale
       /\ f >= 20 * FreqScale
       /\ f <= 20000 * FreqScale

\* C4: after a detectPeaks pass the peaks list has at most 10 entries, is
\* ordered by non-increasing magnitude, holds only peaks accepted in that
\* pass, and, when more than 10 were accepted, the 10 of largest magnitude.
C4_TopTenSorted ==
    /\ Len(analyzer.peaks) <= 10
    /\ \A k \in 1..(Len(analyzer.peaks) - 1) :
          analyzer.peaks[k][2] >= analyzer.peaks[k + 1][2]
    /\ PeakSet \subseteq AcceptedSet
    /\ Cardinality(PeakSet) = Len(analyzer.peaks)
    /\ Len(analyzer.peaks) = Min(10, Len(probe.accepted))
    /\ \A dropped \in AcceptedSet \ PeakSet :
          \A kept \in PeakSet : dropped[2] <= kept[2]

C4_Witness ==
    /\ probe.last = "performFFT"
    /\ Len(probe.accepted) > 10
    /\ Len(analyzer.peaks) = 10
    /\ \E k \in 1..9 : analyzer.peaks[k][2] > analyzer.peaks[k + 1][2]
    /\ \E dropped \in AcceptedSet \ PeakSet :
          dropped[2] < analyzer.peaks[10][2]

\* C5: every reported peak (f, m) is a bin i, 2 <= i < size-2, with
\* f = binFrequencies[i], m = smoothedBins[i], smoothedBins[i] strictly above
\* its neighbours i-1, i+1, i-2, i+2 and above -40 dB, and f in 20..20000 Hz.
C5_OnlyLocalMaxima ==
    probe.last = "performFFT" =>
    \A p \in PeakSet :
        \E i \in 2..(Len(analyzer.smoothedBins) - 3) :
            /\ p[1] = analyzer.binFrequencies[i + 1]
            /\ p[2] = analyzer.smoothedBins[i + 1]
            /\ QualifiesAsPeak(i)

C5_Witness ==
    /\ probe.last = "performFFT"
    /\ Len(analyzer.peaks) >= 2
    /\ \E i \in 2..(Len(analyzer.smoothedBins) - 3) :
          \* a loud bin with an equally loud neighbour: not reported
          /\ analyzer.smoothedBins[i + 1] > -40 * DbScale
          /\ analyzer.smoothedBins[i + 1] = analyzer.smoothedBins[i + 2]
          /\ analyzer.binFrequencies[i + 1] <= 20000 * FreqScale
    /\ \E i \in 2..(Len(analyzer.smoothedBins) - 3) :
          \* a strict local maximum above 20000 Hz: not reported
          /\ \A d \in {-2, -1, 1, 2} :
                analyzer.smoothedBins[i + 1] > analyzer.smoothedBins[i + 1 + d]
          /\ analyzer.smoothedBins[i + 1] > -40 * DbScale
          /\ analyzer.binFrequencies[i + 1] > 20000 * FreqScale

\* C6: scanning the bins in ascending order, a qualifying bin is accepted
\* if and only if no peak accepted before it lies less than 100 Hz away;
\* hence an earlier weaker peak suppresses a later stronger one, and any
\* two reported peaks are at least 100 Hz apart.
C6_GreedySeparation ==
    probe.last = "performFFT" =>
    /\ \A i \in 2..(Len(analyzer.smoothedBins) - 3) :
          LET f == analyzer.binFrequencies[i + 1]
              m == analyzer.smoothedBins[i + 1]
          IN (<<f, m>> \in AcceptedSet) <=>
                 /\ QualifiesAsPeak(i)
                 /\ ~\E e \in AcceptedSet :
                       e[1] < f /\ f - e[1] < 100 * FreqScale
    /\ \A k \in 1..(Len(probe.accepted) - 1) :
          probe.accepted[k][1] < probe.accepted[k + 1][1]
    /\ \A p \in PeakSet, q \in PeakSet :
          p # q => Abs(p[1] - q[1]) >= 100 * FreqScale

C6_Witness ==
    /\ probe.last = "performFFT"
    /\ \E i \in 2..(Len(analyzer.smoothedBins) - 3) :
          \* a qualifying bin rejected for an earlier, weaker peak
          /\ QualifiesAsPeak(i)
          /\ <<analyzer.binFrequencies[i + 1], analyzer.smoothedBins[i + 1]>>
                 \notin AcceptedSet
          /\ \E e \in PeakSet :
                /\ e[1] < analyzer.binFrequencies[i + 1]
                /\ e[2] < analyzer.smoothedBins[i + 1]
                /\ analyzer.binFrequencies[i + 1] - e[1] < 100 * FreqScale
    /\ \E p \in PeakSet, q \in PeakSet :
          \* two reported peaks exactly 100 Hz apart
          p[1] - q[1] = 100 * FreqScale

----------------------------------------------------------------------------
(* Specification of the equalizer: one thread calls the public operations  *)
(* of a MultiBandEQ in any order.  probe records the call just made and    *)
(* its arguments, audio the buffer handed to processBlock together with    *)
(* the equalizer as it was when the call began.                            *)

IdleAnalyzer == [idle |-> TRUE]

EqSampleRates == {44100, 48000}
BandIndices == {-1, 1, 4, NumBands}
EnableIndices == (0..(NumBands - 1)) \cup {NumBands}
ParamInputs ==
    { [frequency |-> 30000, gain |-> 50, Q |-> 20 * QScale],
      [frequency |-> 10, gain |-> -50, Q |-> QScale \div 20] }
TypeInputs == {"BandPass", "LowShelf"}
Buffers ==
    { << <<200, -100>> >>,
      << <<200, -100>>, <<-60, 120>> >>,
      << << >> >> }

EqProbeInit ==
    [configCalls |-> 0, toggles |-> 0, blocks |-> 0, last |-> "construct",
     bandIndex |-> 0, frequency |-> 0, gain |-> 0, Q |-> 0]

InitEQ ==
    /\ eq = MultiBandEQCtor
    /\ audio = IdleAudio
    /\ probe = EqProbeInit
    /\ analyzer = IdleAnalyzer

NoParams == [frequency |-> 0, gain |-> 0, Q |-> 0]

EqConfigured(e, op, bandIndex, p) ==
    /\ probe.configCalls < MaxEqConfig
    /\ eq' = e
    /\ probe' = [probe EXCEPT !.configCalls = @ + 1, !.last = op,
                              !.bandIndex = bandIndex,
                              !.frequency = p.frequency, !.gain = p.gain,
                              !.Q = p.Q]
    /\ audio' = IdleAudio
    /\ UNCHANGED analyzer

EqPrepare ==
    \E sr \in EqSampleRates :
        EqConfigured(eqPrepare(eq, sr, 512), "prepare", 0, NoParams)

SetBandParameters ==
    \E bandIndex \in BandIndices, p \in ParamInputs :
        EqConfigured(setBandParameters(eq, bandIndex, p.frequency, p.gain, p.Q),
                     "setBandParameters", bandIndex, p)

SetBandType ==
    \E bandIndex \in BandIndices, type \in TypeInputs :
        EqConfigured(setBandType(eq, bandIndex, type), "setBandType",
                     bandIndex, NoParams)

SetBandEnabled ==
    \E bandIndex \in EnableIndices, enabled \in BOOLEAN :
        /\ probe.toggles < MaxToggles
        /\ eq' = setBandEnabled(eq, bandIndex, enabled)
        /\ probe' = [probe EXCEPT !.toggles = @ + 1, !.last = "setBandEnabled",
                                  !.bandIndex = 0, !.frequency = 0,
                                  !.gain = 0, !.Q = 0]
        /\ audio' = IdleAudio
        /\ UNCHANGED analyzer

SetBypass ==
    \E shouldBypass \in BOOLEAN :
        EqConfigured(setBypass(eq, shouldBypass), "setBypass", 0, NoParams)

EqReset == EqConfigured(eqReset(eq), "reset", 0, NoParams)

ProcessBlock ==
    \E buffer \in Buffers :
        LET r == processBlock(eq, buffer) IN
        /\ probe.blocks < MaxEqBlocks
        /\ eq' = r.e
        /\ audio' = [input |-> buffer, output |-> r.buffer, before |-> eq]
        /\ probe' = [probe EXCEPT !.blocks = @ + 1, !.last = "processBlock",
                                  !.bandIndex = 0, !.frequency = 0,
                                  !.gain = 0, !.Q = 0]
        /\ UNCHANGED analyzer

NextEQ ==
    \/ EqPrepare
    \/ SetBandParameters
    \/ SetBandType
    \/ SetBandEnabled
    \/ SetBypass
    \/ EqReset
    \/ ProcessBlock

SpecEQ == InitEQ /\ [][NextEQ]_vars

----------------------------------------------------------------------------
(* Properties of the equalizer                                             *)

BandRange == 0..(NumBands - 1)

(* The coefficients setFilter produces for band i's stored configuration   *)
(* at the equalizer's sample rate.                                         *)
CoefficientsFor(e, i) ==
    setFilter([e.filters[i] EXCEPT !.currentSampleRate = e.sampleRate],
              e.bands[i].type, e.bands[i].frequency, e.bands[i].Q,
              decibelsToGain(e.bands[i].gain)).coeffs

(* C7: after any setter call (setBandParameters, setBandType,              *)
(* setBandEnabled) or prepare, whatever preceded it, the coefficients of   *)
(* every filters[i] are those setFilter produces for bands[i] at the       *)
(* current sample rate.                                                    *)
C7_CoefficientsInSync ==
    probe.last \in {"prepare", "setBandParameters", "setBandType", "setBandEnabled"}
        => \A i \in BandRange : eq.filters[i].coeffs = CoefficientsFor(eq, i)

(* The band indices of the enabled bands, ascending.                       *)
EnabledInOrder(bands) ==
    SelectSeq([k \in 1..NumBands |-> k - 1], LAMBDA i : bands[i].enabled)

(* One sample through the filters named by order, each fed the previous    *)
(* one's output.                                                           *)
RECURSIVE ApplyInOrder(_, _, _)
ApplyInOrder(filters, order, x) ==
    IF order = << >> THEN [filters |-> filters, out |-> x]
    ELSE LET r == processSample(filters[Head(order)], x) IN
         ApplyInOrder([filters EXCEPT ![Head(order)] = r.flt], Tail(order), r.out)

(* The samples of a buffer in processing order: channel by channel, each   *)
(* channel in buffer order.                                                *)
RECURSIVE Flat(_)
Flat(buffer) == IF buffer = << >> THEN << >> ELSE Head(buffer) \o Flat(Tail(buffer))

RECURSIVE ExpectedStream(_, _, _, _)
ExpectedStream(filters, order, stream, done) ==
    IF stream = << >> THEN [filters |-> filters, out |-> done]
    ELSE LET r == ApplyInOrder(filters, order, Head(stream)) IN
         ExpectedStream(r.filters, order, Tail(stream), Append(done, r.out))

ExpectedBlock ==
    ExpectedStream(audio.before.filters, EnabledInOrder(audio.before.bands),
                   Flat(audio.input), << >>)

(* C8: processBlock replaces every sample of every channel by the result   *)
(* of processSample of the enabled bands' filters in ascending band order, *)
(* each fed the previous band's output, the samples of a channel taken in  *)
(* buffer order; with no band enabled the buffer is left unchanged.        *)
C8_CascadeInBandOrder ==
    probe.last = "processBlock" =>
        /\ Len(audio.output) = Len(audio.input)
        /\ \A c \in 1..Len(audio.input) : Len(audio.output[c]) = Len(audio.input[c])
        /\ Flat(audio.output) = ExpectedBlock.out
        /\ eq.filters = ExpectedBlock.filters
        /\ eq.bands = audio.before.bands
        /\ (\A i \in BandRange : ~audio.before.bands[i].enabled)
               => audio.output = audio.input /\ eq.filters = audio.before.filters

(* A two-channel block through an equalizer with a disabled band and two   *)
(* or more enabled bands whose filters are not the identity.               *)
C8_Witness ==
    /\ probe.last = "processBlock"
    /\ Len(audio.input) = 2
    /\ Len(audio.input[1]) = 2
    /\ \E i \in BandRange : ~audio.before.bands[i].enabled
    /\ \E i, j \in BandRange :
          /\ i < j
          /\ audio.before.bands[i].enabled
          /\ audio.before.bands[j].enabled
          /\ audio.before.filters[i].coeffs # BiquadFilterCtor.coeffs
          /\ audio.before.filters[j].coeffs # BiquadFilterCtor.coeffs
    /\ audio.output # audio.input

(* C9: with the bypassed flag set, processBlock is a no-op: it leaves      *)
(* every sample of the buffer and the state of every band filter           *)
(* unchanged.                                                              *)
C9_BypassIsNoOp ==
    (probe.last = "processBlock" /\ audio.before.bypassed)
        => /\ audio.output = audio.input
           /\ \A i \in BandRange : eq.filters[i].state = audio.before.filters[i].state

Clamped(lo, hi, v) == IF v < lo THEN lo ELSE IF v > hi THEN hi ELSE v

(* C10: setBandParameters with a valid index stores the frequency clamped  *)
(* to [20, 20000], the gain clamped to [-24, 24] and Q clamped to          *)
(* [0.1, 10]; in every reachable state every band's frequency, gain and Q  *)
(* lie inside those ranges.                                                *)
C10_ParametersClamped ==
    /\ \A i \in BandRange :
          /\ eq.bands[i].frequency >= 20 /\ eq.bands[i].frequency <= 20000
          /\ eq.bands[i].gain >= -24 /\ eq.bands[i].gain <= 24
          /\ 10 * eq.bands[i].Q >= QScale /\ eq.bands[i].Q <= 10 * QScale
    /\ (probe.last = "setBandParameters" /\ probe.bandIndex \in BandRange)
          => /\ eq.bands[probe.bandIndex].frequency = Clamped(20, 20000, probe.frequency)
             /\ eq.bands[probe.bandIndex].gain = Clamped(-24, 24, probe.gain)
             /\ 10 * eq.bands[probe.bandIndex].Q
                    = Clamped(QScale, 100 * QScale, 10 * probe.Q)

(* setBandParameters(i, 30000, 50, 20) has stored (20000, 24, 10).         *)
C10_Witness ==
    /\ probe.last = "setBandParameters"
    /\ probe.bandIndex \in BandRange
    /\ probe.frequency = 30000 /\ probe.gain = 50 /\ probe.Q = 20 * QScale
    /\ eq.bands[probe.bandIndex].frequency = 20000
    /\ eq.bands[probe.bandIndex].gain = 24
    /\ eq.bands[probe.bandIndex].Q = 10 * QScale

----------------------------------------------------------------------------
(* A session with one equalizer, followed call by call: probe.before is    *)
(* the equalizer as it was when the last call began, probe.returned what   *)
(* the call returned, and probe.twin a second, freshly constructed         *)
(* equalizer that receives the same configuration calls but never a        *)
(* processBlock or a reset.  probe.frozen[i] is band i's filter as it was  *)
(* when the band was disabled, kept while only processBlock, getBand and   *)
(* setBandEnabled calls follow.                                            *)

None == [none |-> TRUE]

SessionProbeInit ==
    [config |-> 0, toggles |-> 0, blocks |-> 0, resets |-> 0,
     last |-> "construct", bandIndex |-> 0, enabled |-> FALSE,
     before |-> MultiBandEQCtor, returned |-> 0, twin |-> MultiBandEQCtor,
     frozen |-> [i \in 0..(NumBands - 1) |-> None]]

InitSession ==
    /\ eq = MultiBandEQCtor
    /\ audio = IdleAudio
    /\ probe = SessionProbeInit
    /\ analyzer = IdleAnalyzer

Frozen(frozen, op, bandIndex, enabled) ==
    IF op = "getBand" THEN frozen
    ELSE IF op # "setBandEnabled" THEN [i \in 0..(NumBands - 1) |-> None]
    ELSE IF bandIndex >= 0 /\ bandIndex < NumBands /\ ~enabled
            /\ eq.bands[bandIndex].enabled
         THEN [frozen EXCEPT ![bandIndex] = eq.filters[bandIndex]]
         ELSE frozen

(* The bookkeeping of one call that hands no buffer over.                  *)
Called(e, twin, op, bandIndex, enabled, returned, counter) ==
    /\ eq' = e
    /\ probe' = [probe EXCEPT !.config = @ + (IF counter = "config" THEN 1 ELSE 0),
                              !.toggles = @ + (IF counter = "toggles" THEN 1 ELSE 0),
                              !.resets = @ + (IF counter = "resets" THEN 1 ELSE 0),
                              !.last = op, !.bandIndex = bandIndex,
                              !.enabled = enabled, !.before = eq,
                              !.returned = returned, !.twin = twin,
                              !.frozen = Frozen(@, op, bandIndex, enabled)]
    /\ audio' = IdleAudio
    /\ UNCHANGED analyzer

SessionPrepare ==
    \E sr \in EqSampleRates :
        /\ probe.config < MaxUseConfig
        /\ Called(eqPrepare(eq, sr, 512), eqPrepare(probe.twin, sr, 512),
                  "prepare", 0, FALSE, 0, "config")

SessionSetBandParameters ==
    \E bandIndex \in BandIndices, p \in ParamInputs :
        /\ probe.config < MaxUseConfig
        /\ Called(setBandParameters(eq, bandIndex, p.frequency, p.gain, p.Q),
                  setBandParameters(probe.twin, bandIndex, p.frequency, p.gain, p.Q),
                  "setBandParameters", bandIndex, FALSE, 0, "config")

SessionSetBandType ==
    \E bandIndex \in BandIndices, type \in TypeInputs :
        /\ probe.config < MaxUseConfig
        /\ Called(setBandType(eq, bandIndex, type),
                  setBandType(probe.twin, bandIndex, type),
                  "setBandType", bandIndex, FALSE, 0, "config")

SessionSetBandEnabled ==
    \E bandIndex \in BandIndices, enabled \in BOOLEAN :
        /\ probe.toggles < MaxUseToggles
        /\ Called(setBandEnabled(eq, bandIndex, enabled),
                  setBandEnabled(probe.twin, bandIndex, enabled),
                  "setBandEnabled", bandIndex, enabled, 0, "toggles")

SessionSetBypass ==
    \E shouldBypass \in BOOLEAN :
        /\ probe.config < MaxUseConfig
        /\ Called(setBypass(eq, shouldBypass), setBypass(probe.twin, shouldBypass),
                  "setBypass", 0, shouldBypass, 0, "config")

SessionGetBand ==
    \E index \in BandIndices :
        Called(eq, probe.twin, "getBand", index, FALSE, getBand(eq, index), "none")

SessionReset ==
    /\ probe.resets < MaxUseResets
    /\ Called(eqReset(eq), probe.twin, "reset", 0, FALSE, 0, "resets")

SessionProcessBlock ==
    \E buffer \in Buffers :
        LET r == processBlock(eq, buffer) IN
        /\ probe.blocks < MaxUseBlocks
        /\ eq' = r.e
        /\ audio' = [input |-> buffer, output |-> r.buffer, before |-> eq]
        /\ probe' = [probe EXCEPT !.blocks = @ + 1, !.last = "processBlock",
                                  !.bandIndex = 0, !.enabled = FALSE,
                                  !.before = eq, !.returned = 0]
        /\ UNCHANGED analyzer

NextSession ==
    \/ SessionPrepare
    \/ SessionSetBandParameters
    \/ SessionSetBandType
    \/ SessionSetBandEnabled
    \/ SessionSetBypass
    \/ SessionGetBand
    \/ SessionReset
    \/ SessionProcessBlock

SpecSession == InitSession /\ [][NextSession]_vars

----------------------------------------------------------------------------
(* Properties of the equalizer in a session                                *)

SetterCalls == {"setBandParameters", "setBandType", "setBandEnabled"}

(* C11: for a bandIndex outside [0, 5) the three setters leave every       *)
(* band's configuration and every filter's coefficients and state          *)
(* unchanged; getBand(index) returns band 0 for index < 0 and band 4 for   *)
(* index >= 5, and the indexed band otherwise.                             *)
C11_OutOfRangeIgnored ==
    /\ (probe.last \in SetterCalls /\ probe.bandIndex \notin BandRange)
          => eq = probe.before
    /\ probe.last = "getBand"
          => /\ eq = probe.before
             /\ probe.returned =
                   IF probe.bandIndex < 0 THEN eq.bands[0]
                   ELSE IF probe.bandIndex >= 5 THEN eq.bands[4]
                   ELSE eq.bands[probe.bandIndex]

(* setBandEnabled(5, false) on an equalizer whose filters hold history and *)
(* whose band 4 is enabled.                                                *)
C11_Witness ==
    /\ probe.last = "setBandEnabled"
    /\ probe.bandIndex = NumBands
    /\ ~probe.enabled
    /\ eq.bands[4].enabled
    /\ \E i \in BandRange : eq.filters[i].state # ZeroState

----------------------------------------------------------------------------
(* Queries of the frequency response, on an equalizer configured by the    *)
(* calls of a session and with any subset of its bands enabled.            *)

FrequencyQueries == { << >>, <<250>>, <<1000, 12000>> }

QuerySetBandEnabled ==
    \E bandIndex \in BandRange, enabled \in BOOLEAN :
        /\ probe.toggles < MaxQueryToggles
        /\ Called(setBandEnabled(eq, bandIndex, enabled),
                  setBandEnabled(probe.twin, bandIndex, enabled),
                  "setBandEnabled", bandIndex, enabled, 0, "toggles")

QueryGetFrequencyResponse ==
    \E frequencies \in FrequencyQueries :
        Called(eq, probe.twin, "getFrequencyResponse", 0, FALSE,
               [frequencies |-> frequencies,
                response |-> getFrequencyResponse(eq, frequencies)], "none")

NextQuery ==
    \/ SessionPrepare
    \/ SessionSetBandParameters
    \/ SessionSetBandType
    \/ QuerySetBandEnabled
    \/ QueryGetFrequencyResponse

SpecQuery == InitSession /\ [][NextQuery]_vars

----------------------------------------------------------------------------
(* Properties of the frequency response                                    *)

(* The product of the responses of the filters named by order at one       *)
(* frequency, starting from acc.                                           *)
RECURSIVE ResponseProduct(_, _, _, _)
ResponseProduct(filters, order, frequency, acc) ==
    IF order = << >> THEN acc
    ELSE ResponseProduct(filters, Tail(order), frequency,
             ComplexTimes(acc, filterFrequencyResponse(filters[Head(order)], frequency)))

(* The magnitude expected of equalizer e at each of the frequencies.       *)
ExpectedResponse(e, frequencies) ==
    [k \in 1..Len(frequencies) |->
        ComplexAbs(ResponseProduct(e.filters, EnabledInOrder(e.bands),
                                   frequencies[k], Complex(CoefScale, 0)))]

(* C12: getFrequencyResponse returns, per query frequency, the magnitude   *)
(* of the product of the responses of exactly the enabled bands (1.0 when  *)
(* none is enabled); disabling a band removes that band's factor,          *)
(* re-enabling it restores the result, and the call changes nothing.       *)
C12_ResponseOfEnabledBands ==
    probe.last = "getFrequencyResponse" =>
        LET frequencies == probe.returned.frequencies
            response    == probe.returned.response
        IN /\ eq = probe.before
           /\ response = ExpectedResponse(eq, frequencies)
           /\ (\A i \in BandRange : ~eq.bands[i].enabled)
                 => response = [k \in 1..Len(frequencies) |-> CoefScale]
           /\ \A i \in BandRange :
                 LET without == setBandEnabled(eq, i, FALSE) IN
                 /\ getFrequencyResponse(without, frequencies)
                        = ExpectedResponse(
                              [eq EXCEPT !.bands[i].enabled = FALSE], frequencies)
                 /\ eq.bands[i].enabled
                        => getFrequencyResponse(setBandEnabled(without, i, TRUE),
                                                frequencies) = response

(* A query at two frequencies with band 4 disabled, the other bands        *)
(* enabled and tuned by prepare, and a response that differs from the      *)
(* response of all five bands.                                             *)
C12_Witness ==
    /\ probe.last = "getFrequencyResponse"
    /\ Len(probe.returned.frequencies) = 2
    /\ ~eq.bands[4].enabled
    /\ \A i \in 0..3 : eq.bands[i].enabled
    /\ \A i \in BandRange : eq.filters[i].coeffs # BiquadFilterCtor.coeffs
    /\ probe.returned.response
           # getFrequencyResponse(setBandEnabled(eq, 4, TRUE), probe.returned.frequencies)

----------------------------------------------------------------------------
(* Specification of one BiquadFilter used on its own: eq is the filter,    *)
(* audio the sample buffer handed to process, probe the call just made,    *)
(* the filter as it was when the call began, and the last two inputs and   *)
(* outputs since the history was last cleared.                             *)

FilterSettings ==
    { [frequency |-> 1000, Q |-> 707, gain |-> CoefScale],
      [frequency |-> 4000, Q |-> 2 * QScale, gain |-> 3981] }
CoefficientInputs ==
    { Coefficients(500, 250, -125, -300, 200),
      Coefficients(CoefScale, 0, 0, 0, 0) }
SampleInputs == {200, -100}
BlockInputs == { <<200, -100, 50>> }
BlockCounts == {-1, 0, 2, 3}
ResponseFrequencies == {1000, 12000}

NoHistory == [xs |-> <<0, 0>>, ys |-> <<0, 0>>]

(* The history after one more sample: the newest input and output first.   *)
Remember(h, x, y) == [xs |-> <<x, h.xs[1]>>, ys |-> <<y, h.ys[1]>>]

RECURSIVE RememberAll(_, _, _, _)
RememberAll(h, inputs, outputs, n) ==
    IF n <= 0 THEN h
    ELSE RememberAll(Remember(h, Head(inputs), Head(outputs)),
                     Tail(inputs), Tail(outputs), n - 1)

FilterProbeInit ==
    [tunings |-> 0, runs |-> 0, last |-> "construct", before |-> BiquadFilterCtor,
     input |-> 0, output |-> 0, history |-> NoHistory]

InitFilter ==
    /\ eq = BiquadFilterCtor
    /\ audio = IdleAudio
    /\ probe = FilterProbeInit
    /\ analyzer = IdleAnalyzer

Tuned(flt, op, history) ==
    /\ probe.tunings < MaxTunings
    /\ eq' = flt
    /\ probe' = [probe EXCEPT !.tunings = @ + 1, !.last = op, !.before = eq,
                              !.input = 0, !.output = 0, !.history = history]
    /\ audio' = IdleAudio
    /\ UNCHANGED analyzer

FilterPrepare ==
    \E sr \in EqSampleRates : Tuned(filterPrepare(eq, sr, 512), "prepare", NoHistory)

FilterSetFilter ==
    \E type \in FilterTypes, p \in FilterSettings :
        Tuned(setFilter(eq, type, p.frequency, p.Q, p.gain), "setFilter",
              probe.history)

FilterSetCoefficients ==
    \E c \in CoefficientInputs :
        Tuned(setCoefficients(eq, c.b0, c.b1, c.b2, c.a1, c.a2), "setCoefficients",
              probe.history)

FilterReset ==
    /\ eq' = filterReset(eq)
    /\ probe' = [probe EXCEPT !.last = "reset", !.before = eq, !.input = 0,
                              !.output = 0, !.history = NoHistory]
    /\ audio' = IdleAudio
    /\ UNCHANGED analyzer

FilterGetFrequencyResponse ==
    \E frequency \in ResponseFrequencies :
        /\ eq' = eq
        /\ probe' = [probe EXCEPT !.last = "getFrequencyResponse", !.before = eq,
                                  !.input = frequency,
                                  !.output = filterFrequencyResponse(eq, frequency)]
        /\ audio' = IdleAudio
        /\ UNCHANGED analyzer

FilterProcessSample ==
    \E input \in SampleInputs :
        LET r == processSample(eq, input) IN
        /\ probe.runs < MaxRuns
        /\ eq' = r.flt
        /\ probe' = [probe EXCEPT !.runs = @ + 1, !.last = "processSample",
                                  !.before = eq, !.input = input, !.output = r.out,
                                  !.history = Remember(@, input, r.out)]
        /\ audio' = IdleAudio
        /\ UNCHANGED analyzer

FilterProcess ==
    \E samples \in BlockInputs, numSamples \in BlockCounts :
        LET r == process(eq, samples, numSamples) IN
        /\ probe.runs < MaxRuns
        /\ eq' = r.flt
        /\ audio' = [input |-> samples, numSamples |-> numSamples,
                     output |-> r.samples]
        /\ probe' = [probe EXCEPT !.runs = @ + 1, !.last = "process",
                                  !.before = eq, !.input = 0, !.output = 0,
                                  !.history = RememberAll(@, samples, r.samples,
                                                          numSamples)]
        /\ UNCHANGED analyzer

NextFilter ==
    \/ FilterPrepare
    \/ FilterSetFilter
    \/ FilterSetCoefficients
    \/ FilterReset
    \/ FilterGetFrequencyResponse
    \/ FilterProcessSample
    \/ FilterProcess

SpecFilter == InitFilter /\ [][NextFilter]_vars

----------------------------------------------------------------------------
(* Properties of the BiquadFilter                                          *)

(* C13: processSample(x) returns y = b0*x + b1*x1 + b2*x2 - a1*y1 - a2*y2  *)
(* from the state held before the call and leaves x2 = old x1, x1 = x,     *)
(* y2 = old y1, y1 = y; the state always holds the last two inputs and     *)
(* outputs, and a filter with the default coefficients returns its input.  *)
C13_DifferenceEquation ==
    /\ probe.last = "processSample" =>
          LET c == probe.before.coeffs
              s == probe.before.state
              x == probe.input
              y == probe.output
          IN /\ 2 * CoefScale * y - CoefScale
                    <= 2 * (c.b0 * x + c.b1 * s.x1 + c.b2 * s.x2
                              - c.a1 * s.y1 - c.a2 * s.y2)
             /\ 2 * (c.b0 * x + c.b1 * s.x1 + c.b2 * s.x2
                       - c.a1 * s.y1 - c.a2 * s.y2)
                    < 2 * CoefScale * y + CoefScale
             /\ eq.state = [x1 |-> x, x2 |-> s.x1, y1 |-> y, y2 |-> s.y1]
             /\ (c = [b0 |-> CoefScale, b1 |-> 0, b2 |-> 0, a1 |-> 0, a2 |-> 0]
                    => y = x)
    /\ eq.state = [x1 |-> probe.history.xs[1], x2 |-> probe.history.xs[2],
                   y1 |-> probe.history.ys[1], y2 |-> probe.history.ys[2]]

(* A sample through a tuned filter whose four history values are all       *)
(* non-zero and all take part in the output.                               *)
C13_Witness ==
    /\ probe.last = "processSample"
    /\ probe.before.state.x1 # 0 /\ probe.before.state.x2 # 0
    /\ probe.before.state.y1 # 0 /\ probe.before.state.y2 # 0
    /\ probe.before.coeffs.b1 # 0 /\ probe.before.coeffs.b2 # 0
    /\ probe.before.coeffs.a1 # 0 /\ probe.before.coeffs.a2 # 0
    /\ probe.output # probe.input

RECURSIVE SampleBySample(_, _, _)
SampleBySample(flt, samples, done) ==
    IF samples = << >> THEN [flt |-> flt, samples |-> done]
    ELSE LET r == processSample(flt, Head(samples)) IN
         SampleBySample(r.flt, Tail(samples), Append(done, r.out))

(* C14: process(samples, n) leaves buffer and filter as n successive       *)
(* processSample calls on samples[0..n-1] would; one call gives the same   *)
(* as any two consecutive sub-blocks; n <= 0 changes nothing.              *)
C14_ProcessIsRepeatedProcessSample ==
    probe.last = "process" =>
        LET n      == audio.numSamples
            count  == IF n < 0 THEN 0 ELSE n
            length == Len(audio.input)
            one    == SampleBySample(probe.before, SubSeq(audio.input, 1, count), << >>)
        IN /\ eq = one.flt
           /\ audio.output = one.samples \o SubSeq(audio.input, count + 1, length)
           /\ \A k \in 0..count :
                 LET first  == process(probe.before, SubSeq(audio.input, 1, k), k)
                     second == process(first.flt, SubSeq(audio.input, k + 1, count),
                                       count - k)
                 IN /\ second.flt = eq
                    /\ first.samples \o second.samples = SubSeq(audio.output, 1, count)
           /\ n <= 0 => eq = probe.before /\ audio.output = audio.input

(* A block of three samples through a tuned filter that holds history.     *)
C14_Witness ==
    /\ probe.last = "process"
    /\ audio.numSamples = 3
    /\ probe.before.state # ZeroState
    /\ probe.before.coeffs # BiquadFilterCtor.coeffs
    /\ audio.output # audio.input

(* C15: processSample, process, reset, prepare and getFrequencyResponse    *)
(* leave the five coefficients unchanged; reset changes only the state,    *)
(* which it sets to zero; getFrequencyResponse changes nothing.            *)
C15_CoefficientsFrame ==
    /\ probe.last \in {"processSample", "process", "reset", "prepare",
                       "getFrequencyResponse"}
          => eq.coeffs = probe.before.coeffs
    /\ probe.last = "reset" => eq = [probe.before EXCEPT !.state = ZeroState]
    /\ probe.last = "getFrequencyResponse" => eq = probe.before

(* reset on a tuned filter that holds history.                             *)
C15_Witness ==
    /\ probe.last = "reset"
    /\ probe.before.coeffs # BiquadFilterCtor.coeffs
    /\ probe.before.state.x2 # 0
    /\ probe.before.state.y2 # 0

(* C16: setFilter and setCoefficients never modify the state (x1, x2, y1,  *)
(* y2), so the next output comes from the new coefficients and the old     *)
(* history; prepare and reset clear the state.                             *)
C16_TuningKeepsHistory ==
    /\ probe.last \in {"setFilter", "setCoefficients"}
          => /\ eq.state = probe.before.state
             /\ \A x \in SampleInputs :
                   processSample(eq, x).out
                       = processSample([probe.before EXCEPT !.coeffs = eq.coeffs], x).out
    /\ probe.last \in {"prepare", "reset"} => eq.state = ZeroState

(* setCoefficients changing the coefficients of a filter that holds        *)
(* history.                                                                *)
C16_Witness ==
    /\ probe.last = "setCoefficients"
    /\ eq.coeffs # probe.before.coeffs
    /\ eq.state.x1 # 0 /\ eq.state.x2 # 0
    /\ eq.state.y1 # 0 /\ eq.state.y2 # 0

----------------------------------------------------------------------------
(* Properties of disabled bands and of reset                               *)

(* C17: setBandEnabled, in either direction, and processBlock while a band *)
(* is disabled leave that band's filter (history and coefficients)         *)
(* untouched: a band disabled, carried through processBlock calls and      *)
(* enabled again holds the filter it had when it was disabled.             *)
C17_DisabledBandUntouched ==
    /\ probe.last = "setBandEnabled" => eq.filters = probe.before.filters
    /\ probe.last = "processBlock"
          => \A i \in BandRange :
                ~probe.before.bands[i].enabled
                    => eq.filters[i] = probe.before.filters[i]
    /\ \A i \in BandRange :
          (probe.frozen[i] # None
             /\ (~eq.bands[i].enabled
                   \/ (probe.last = "setBandEnabled" /\ probe.bandIndex = i
                         /\ ~probe.before.bands[i].enabled)))
              => eq.filters[i] = probe.frozen[i]

(* Band i holding history is disabled, a block changes the other filters,  *)
(* and band i has just been enabled again.                                 *)
C17_Witness ==
    /\ probe.last = "setBandEnabled"
    /\ probe.enabled
    /\ probe.bandIndex \in BandRange
    /\ ~probe.before.bands[probe.bandIndex].enabled
    /\ probe.frozen[probe.bandIndex] # None
    /\ eq.filters[probe.bandIndex].state # ZeroState
    /\ eq.filters[0].state # eq.filters[probe.bandIndex].state

(* C19: reset zeroes the history of all five band filters, those of       *)
(* disabled bands included, and changes no band configuration, enabled    *)
(* flag, bypass flag or coefficient; afterwards processBlock gives, for    *)
(* every input, the output of a freshly constructed equalizer brought to   *)
(* the same configuration.                                                 *)
C19_ResetClearsHistoryOnly ==
    probe.last = "reset" =>
        /\ \A i \in BandRange :
              /\ eq.filters[i].state = ZeroState
              /\ eq.filters[i] = [probe.before.filters[i] EXCEPT !.state = ZeroState]
        /\ eq.bands = probe.before.bands
        /\ eq.bypassed = probe.before.bypassed
        /\ eq.sampleRate = probe.before.sampleRate
        /\ probe.twin.bands = eq.bands
        /\ probe.twin.bypassed = eq.bypassed
        /\ \A buffer \in Buffers :
              processBlock(eq, buffer).buffer = processBlock(probe.twin, buffer).buffer

(* A reset of an equalizer whose enabled and disabled bands both hold      *)
(* history, after a configuration call.                                    *)
C19_Witness ==
    /\ probe.last = "reset"
    /\ probe.config > 0
    /\ \E i, j \in BandRange :
          /\ ~eq.bands[i].enabled
          /\ probe.before.filters[i].state # ZeroState
          /\ eq.bands[j].enabled
          /\ probe.before.filters[j].state # ZeroState
    /\ \E buffer \in Buffers :
          processBlock(eq, buffer).buffer # processBlock(probe.before, buffer).buffer

(* The fields claims about reset call the processing state.              *)
ProcessingState(a) ==
    [inputBuffer         |-> a.inputBuffer,
     inputBufferIndex    |-> a.inputBufferIndex,
     samplesUntilNextFFT |-> a.samplesUntilNextFFT,
     smoothedBins        |-> a.smoothedBins,
     peakHoldBins        |-> a.peakHoldBins,
     peaks               |-> a.peaks]

\* C18: after reset, reached through prepare or setFFTSize, the processing
\* state (inputBuffer, inputBufferIndex, samplesUntilNextFFT, smoothedBins,
\* peakHoldBins, peaks) is that of a freshly constructed analyzer of the
\* same FFT order.
C18_ResetIsFreshState ==
    probe.last \in {"prepare", "setFFTSize"} =>
        \A order \in Orders :
            Pow2(order) = analyzer.fftSize =>
                ProcessingState(analyzer) = ProcessingState(SpectrumAnalyzerCtor(order))

(* The sizes of the analyzer's FFT-sized buffers.                          *)
BufferSizes(a) ==
    <<Len(a.fftBuffer), Len(a.frequencyBins), Len(a.smoothedBins),
      Len(a.inputBuffer), Len(a.window), Len(a.peakHoldBins)>>

(* C20: when setFFTSize(order) returns, fftSize = 2^order, inputBuffer and *)
(* window have fftSize entries, fftBuffer 2*fftSize, smoothedBins and      *)
(* peakHoldBins fftSize/2, and the analysis state is the reset state       *)
(* (inputBufferIndex = 0, samplesUntilNextFFT = 0, no peaks, inputBuffer   *)
(* all zero); the redraw timer is stopped before any buffer is resized and *)
(* runs again when the call returns.                                       *)
C20_SetFFTSizeReallocates ==
    [][ probe'.last = "setFFTSize" =>
          \E order \in Orders :
              LET N     == Pow2(order)
                  steps == setFFTSizeSteps(analyzer, order)
                  At(k) == IF k = 0 THEN analyzer ELSE steps[k]
              IN /\ analyzer' = steps[Len(steps)]
                 /\ analyzer'.fftSize = N
                 /\ Len(analyzer'.inputBuffer) = N
                 /\ Len(analyzer'.window) = N
                 /\ Len(analyzer'.fftBuffer) = 2 * N
                 /\ Len(analyzer'.smoothedBins) = N \div 2
                 /\ Len(analyzer'.peakHoldBins) = N \div 2
                 /\ analyzer'.inputBufferIndex = 0
                 /\ analyzer'.samplesUntilNextFFT = 0
                 /\ analyzer'.peaks = << >>
                 /\ analyzer'.inputBuffer = Fill(N, 0)
                 /\ analyzer'.timerRunning
                 /\ \A k \in 1..Len(steps) :
                       (BufferSizes(At(k)) # BufferSizes(At(k - 1))
                           \/ At(k).fftSize # At(k - 1).fftSize)
                          => ~At(k - 1).timerRunning
    ]_vars

(* setFFTSize has enlarged an analyzer that was prepared at order 2 and    *)
(* had run performFFT passes.                                              *)
C20_Witness ==
    /\ probe.last = "setFFTSize"
    /\ analyzer.fftSize = Pow2(MaxOrder)
    /\ Len(analyzer.binFrequencies) = 2
    /\ probe.fftTotal > 0
    /\ probe.consumed = 0

----------------------------------------------------------------------------
(* LockFreeCircularBuffer<T, Size> (ModernMemoryManagement.h, 179-237)     *)
(* A buffer object is [buffer_, head_, tail_]; buffer_ is indexed from 0.   *)

Size == 4

(* std::array<T, Size> buffer_ has no initialiser: its elements start with *)
(* an indeterminate value, as does a slot read while it is being written.  *)
Indeterminate == {0, -7}

increment(idx) == (idx + 1) % Size

LockFreeCircularBufferCtor(garbage) ==
    [buffer_ |-> [i \in 0..(Size - 1) |-> garbage], head_ |-> 0, tail_ |-> 0]

ringEmpty(b) == b.head_ = b.tail_

ringFull(b) == increment(b.tail_) = b.head_

ringSizeUnmasked(b) == b.tail_ - b.head_

ringSize(b) == (b.tail_ - b.head_) % Size

capacity == Size - 1

(* The locals of a thread inside push: its position, the argument, the two *)
(* locals of lines 186-187 and the value returned.                         *)
PushIdle == [pc |-> "idle", item |-> 0, current_tail |-> 0, next_tail |-> 0,
             returned |-> FALSE]

(* The locals of a thread inside pop: its position, the local of line 197, *)
(* the out-parameter item and the value returned.                          *)
PopIdle == [pc |-> "idle", item |-> 0, current_head |-> 0, returned |-> FALSE]

pushStepPublishingFirst(b, t) ==
    CASE t.pc = "loadTail" ->
            [b |-> b, t |-> [t EXCEPT !.current_tail = b.tail_,
                                      !.next_tail = increment(b.tail_),
                                      !.pc = "loadHead"]]
      [] t.pc = "loadHead" ->
            IF t.next_tail # b.head_
            THEN [b |-> [b EXCEPT !.tail_ = t.next_tail],
                  t |-> [t EXCEPT !.pc = "write"]]
            ELSE [b |-> b, t |-> [t EXCEPT !.pc = "idle", !.returned = FALSE]]
      [] t.pc = "write" ->
            [b |-> b, t |-> [t EXCEPT !.pc = "writing"]]
      [] t.pc = "writing" ->
            [b |-> [b EXCEPT !.buffer_[t.current_tail] = t.item],
             t |-> [t EXCEPT !.pc = "idle", !.returned = TRUE]]
      [] OTHER -> [b |-> b, t |-> [t EXCEPT !.pc = "idle", !.returned = TRUE]]

(* Lines 185-195, one atomic access or slot access per step.  The copy     *)
(* into the slot takes two steps, its beginning and its end.               *)
pushStep(b, t) ==
    CASE t.pc = "loadTail" ->
            [b |-> b, t |-> [t EXCEPT !.current_tail = b.tail_,
                                      !.next_tail = increment(b.tail_),
                                      !.pc = "loadHead"]]
      [] t.pc = "loadHead" ->
            IF t.next_tail # b.head_
            THEN [b |-> b, t |-> [t EXCEPT !.pc = "write"]]
            ELSE [b |-> b, t |-> [t EXCEPT !.pc = "idle", !.returned = FALSE]]
      [] t.pc = "write" ->
            [b |-> b, t |-> [t EXCEPT !.pc = "writing"]]
      [] t.pc = "writing" ->
            [b |-> [b EXCEPT !.buffer_[t.current_tail] = t.item],
             t |-> [t EXCEPT !.pc = "storeTail"]]
      [] OTHER ->
            [b |-> [b EXCEPT !.tail_ = t.next_tail],
             t |-> [t EXCEPT !.pc = "idle", !.returned = TRUE]]

(* Lines 197-207, one atomic access or slot access per step; read is the   *)
(* value the copy out of the slot delivers.                                *)
popStep(b, t, read) ==
    CASE t.pc = "loadHead" ->
            [b |-> b, t |-> [t EXCEPT !.current_head = b.head_, !.pc = "loadTail"]]
      [] t.pc = "loadTail" ->
            IF t.current_head = b.tail_
            THEN [b |-> b, t |-> [t EXCEPT !.pc = "idle", !.returned = FALSE]]
            ELSE [b |-> b, t |-> [t EXCEPT !.pc = "read"]]
      [] t.pc = "read" ->
            [b |-> b, t |-> [t EXCEPT !.pc = "reading"]]
      [] t.pc = "reading" ->
            [b |-> b, t |-> [t EXCEPT !.item = read, !.pc = "storeHead"]]
      [] OTHER ->
            [b |-> [b EXCEPT !.head_ = increment(t.current_head)],
             t |-> [t EXCEPT !.pc = "idle", !.returned = TRUE]]

(* A whole push call: the steps of push run to completion.                 *)
RECURSIVE RunPush(_, _)
RunPush(b, t) ==
    IF t.pc = "idle" THEN [b |-> b, returned |-> t.returned]
    ELSE LET r == pushStep(b, t) IN RunPush(r.b, r.t)

push(b, item) == RunPush(b, [PushIdle EXCEPT !.pc = "loadTail", !.item = item])

(* A whole pop call on a variable holding item: the steps of pop run to    *)
(* completion.                                                             *)
RECURSIVE RunPop(_, _)
RunPop(b, t) ==
    IF t.pc = "idle" THEN [b |-> b, returned |-> t.returned, item |-> t.item]
    ELSE LET r == popStep(b, t, b.buffer_[t.current_head]) IN RunPop(r.b, r.t)

pop(b, item) == RunPop(b, [PopIdle EXCEPT !.pc = "loadHead", !.item = item])

----------------------------------------------------------------------------
(* Specification of the ring buffer between two threads: eq is the buffer  *)
(* object, audio the locals of the producer thread (in push) and of the    *)
(* consumer thread (in pop).  The k-th push call carries the value k.      *)
(* probe.pushed lists the values of the pushes that returned true,         *)
(* probe.popped the values delivered by the pops that returned true, and   *)
(* probe.torn tells that the slot being read was being written during the *)
(* read.                                                                   *)

RingProbeInit ==
    [pushes |-> 0, pops |-> 0, pushed |-> << >>, popped |-> << >>, torn |-> FALSE]

InitRing ==
    /\ \E garbage \in Indeterminate : eq = LockFreeCircularBufferCtor(garbage)
    /\ audio = [producer |-> PushIdle, consumer |-> PopIdle]
    /\ probe = RingProbeInit
    /\ analyzer = IdleAnalyzer

(* The producer copies into the slot the consumer copies out of.           *)
SlotClash(producer, consumer) ==
    /\ producer.pc = "writing"
    /\ consumer.pc = "reading"
    /\ producer.current_tail = consumer.current_head

PushCall ==
    /\ audio.producer.pc = "idle"
    /\ probe.pushes < MaxPushes
    /\ audio' = [audio EXCEPT !.producer = [PushIdle EXCEPT !.pc = "loadTail",
                                                            !.item = probe.pushes + 1]]
    /\ probe' = [probe EXCEPT !.pushes = @ + 1]
    /\ UNCHANGED <<eq, analyzer>>

PushStep ==
    /\ audio.producer.pc # "idle"
    /\ LET r == pushStep(eq, audio.producer) IN
       /\ eq' = r.b
       /\ audio' = [audio EXCEPT !.producer = r.t]
       /\ probe' = [probe EXCEPT
                       !.pushed = IF r.t.pc = "idle" /\ r.t.returned
                                  THEN Append(@, r.t.item) ELSE @,
                       !.torn = @ \/ SlotClash(r.t, audio.consumer)]
    /\ UNCHANGED analyzer

PopCall ==
    /\ audio.consumer.pc = "idle"
    /\ probe.pops < MaxPops
    /\ audio' = [audio EXCEPT !.consumer = [PopIdle EXCEPT !.pc = "loadHead"]]
    /\ probe' = [probe EXCEPT !.pops = @ + 1, !.torn = FALSE]
    /\ UNCHANGED <<eq, analyzer>>

PopStep ==
    /\ audio.consumer.pc # "idle"
    /\ \E read \in (IF audio.consumer.pc = "reading" /\ probe.torn
                    THEN Indeterminate \cup {eq.buffer_[audio.consumer.current_head]}
                    ELSE {eq.buffer_[audio.consumer.current_head]}) :
          LET r == popStep(eq, audio.consumer, read) IN
          /\ eq' = r.b
          /\ audio' = [audio EXCEPT !.consumer = r.t]
          /\ probe' = [probe EXCEPT
                          !.popped = IF r.t.pc = "idle" /\ r.t.returned
                                     THEN Append(@, r.t.item) ELSE @,
                          !.torn = @ \/ SlotClash(audio.producer, r.t)]
    /\ UNCHANGED analyzer

NextRing ==
    \/ PushCall
    \/ PushStep
    \/ PopCall
    \/ PopStep

SpecRing == InitRing /\ [][NextRing]_vars

----------------------------------------------------------------------------
(* Properties of the ring buffer between two threads                       *)

(* C21: with one producer in push and one consumer in pop, under every     *)
(* interleaving of their atomic accesses and slot accesses, the values     *)
(* delivered by successful pops are a prefix of the values accepted by     *)
(* successful pushes, and pop never reads a slot while push writes it.     *)
C21_PopsArePrefixOfPushes ==
    /\ Len(probe.popped) <= Len(probe.pushed)
    /\ probe.popped = SubSeq(probe.pushed, 1, Len(probe.popped))
    /\ ~SlotClash(audio.producer, audio.consumer)
    /\ ~probe.torn

(* A push was refused on a full buffer, the indices have wrapped around,   *)
(* and the producer is writing a slot while the consumer reads another.    *)
C21_Witness ==
    /\ Len(probe.pushed) < probe.pushes - 1
    /\ Len(probe.popped) > 0
    /\ audio.producer.pc = "writing"
    /\ audio.consumer.pc = "reading"
    /\ audio.producer.current_tail < audio.consumer.current_head

----------------------------------------------------------------------------
(* Specification of the ring buffer used call by call: eq is the buffer    *)
(* object; the k-th call, when it is a push, carries the value k.          *)
(* probe.before is the buffer when the last call began, probe.returned     *)
(* what it returned, probe.item the caller's variable handed to pop,       *)
(* probe.accepted and probe.delivered count the pushes and pops that       *)
(* returned true.                                                          *)

RingCallsProbeInit ==
    [calls |-> 0, accepted |-> 0, delivered |-> 0, last |-> "construct",
     returned |-> FALSE, item |-> 0]

InitRingCalls ==
    /\ \E garbage \in Indeterminate :
          /\ eq = LockFreeCircularBufferCtor(garbage)
          /\ probe = [before |-> eq] @@ RingCallsProbeInit
    /\ audio = IdleAudio
    /\ analyzer = IdleAnalyzer

RingPush ==
    /\ probe.calls < MaxRingCalls
    /\ LET r == push(eq, probe.calls + 1) IN
       /\ eq' = r.b
       /\ probe' = [probe EXCEPT !.calls = @ + 1, !.last = "push",
                                 !.returned = r.returned, !.before = eq,
                                 !.accepted = @ + (IF r.returned THEN 1 ELSE 0)]
    /\ UNCHANGED <<audio, analyzer>>

RingPop ==
    /\ probe.calls < MaxRingCalls
    /\ LET r == pop(eq, probe.item) IN
       /\ eq' = r.b
       /\ probe' = [probe EXCEPT !.calls = @ + 1, !.last = "pop",
                                 !.returned = r.returned, !.before = eq,
                                 !.item = r.item,
                                 !.delivered = @ + (IF r.returned THEN 1 ELSE 0)]
    /\ UNCHANGED <<audio, analyzer>>

NextRingCalls ==
    \/ RingPush
    \/ RingPop

SpecRingCalls == InitRingCalls /\ [][NextRingCalls]_vars

----------------------------------------------------------------------------
(* Properties of the ring buffer used call by call                         *)

(* C22: after any sequence of push and pop calls, size() is the number of  *)
(* successful pushes minus successful pops and lies in [0, Size-1];        *)
(* empty() holds iff size() = 0 and full() iff size() = Size-1; push       *)
(* returns false and changes nothing exactly when the buffer is full, pop  *)
(* returns false and changes nothing exactly when it is empty.             *)
C22_SizeAccounting ==
    /\ ringSize(eq) = probe.accepted - probe.delivered
    /\ ringSize(eq) >= 0
    /\ ringSize(eq) <= Size - 1
    /\ capacity = Size - 1
    /\ ringEmpty(eq) <=> ringSize(eq) = 0
    /\ ringFull(eq) <=> ringSize(eq) = Size - 1
    /\ probe.last = "push" =>
          /\ ~probe.returned <=> ringFull(probe.before)
          /\ ~probe.returned <=> eq = probe.before
    /\ probe.last = "pop" =>
          /\ ~probe.returned <=> ringEmpty(probe.before)
          /\ ~probe.returned <=> eq = probe.before
          /\ probe.returned => probe.item = probe.before.buffer_[probe.before.head_]

(* A push refused on a buffer that is full across the wrap-around, after   *)
(* a pop had been refused on the empty buffer.                             *)
C22_Witness ==
    /\ probe.last = "push"
    /\ ~probe.returned
    /\ eq.tail_ < eq.head_
    /\ probe.accepted + probe.delivered < probe.calls - 1

----------------------------------------------------------------------------
(* MemoryPool (ModernMemoryManagement.h, 68-117)                           *)
(* size_t arithmetic is modular; the model keeps a word of WordBits bits,  *)
(* SizeMax standing for the largest size_t.  A pool object is              *)
(* [poolSize_, pool_, currentOffset_], pool_ being the address of the      *)
(* char array; nullptr is address 0.                                       *)

WordBits == 16
SizeMax == 2 ^ WordBits - 1

Wrap(x) == x % (SizeMax + 1)

(* x & y on size_t.                                                        *)
RECURSIVE BitAnd(_, _)
BitAnd(x, y) ==
    IF x = 0 \/ y = 0 THEN 0
    ELSE 2 * BitAnd(x \div 2, y \div 2) + (IF x % 2 = 1 /\ y % 2 = 1 THEN 1 ELSE 0)

(* ~x on size_t.                                                           *)
BitNot(x) == SizeMax - x

nullptr == 0

(* Line 70-73; the array comes from operator new[], which aligns it for    *)
(* std::max_align_t and no further.                                        *)
MemoryPoolCtor(poolSize, address) ==
    [poolSize_ |-> poolSize, pool_ |-> address, currentOffset_ |-> 0]

(* Lines 75-88, under the mutex.                                           *)
allocate(pool, size, alignment) ==
    LET alignedOffset ==
            BitAnd(Wrap(pool.currentOffset_ + alignment - 1), BitNot(Wrap(alignment - 1)))
    IN IF Wrap(alignedOffset + size) > pool.poolSize_
       THEN [pool |-> pool, ptr |-> nullptr]
       ELSE [pool |-> [pool EXCEPT !.currentOffset_ = Wrap(alignedOffset + size)],
             ptr  |-> pool.pool_ + alignedOffset]

(* Lines 97-100.                                                           *)
poolReset(pool) == [pool EXCEPT !.currentOffset_ = 0]

getBytesUsed(pool) == pool.currentOffset_

getBytesAvailable(pool) == Wrap(pool.poolSize_ - pool.currentOffset_)

----------------------------------------------------------------------------
(* Specification of the memory pool: eq is the pool object; probe.before   *)
(* is the pool when the last call began, probe.ptr what allocate returned  *)
(* for probe.size and probe.alignment, probe.regions the regions           *)
(* (address, size) handed out since the last reset, the last call's        *)
(* excluded.                                                               *)

PoolSizes == {64, 1024}
PoolAddresses == {4096, 4112}
AllocSizes == {0, 8, 100, 200, 1000, SizeMax - 50}
Alignments == {1, 16, 64}

PoolProbeInit ==
    [calls |-> 0, last |-> "construct", ptr |-> nullptr, size |-> 0,
     alignment |-> 1, regions |-> {}]

InitPool ==
    /\ \E poolSize \in PoolSizes, address \in PoolAddresses :
          /\ eq = MemoryPoolCtor(poolSize, address)
          /\ probe = [before |-> eq] @@ PoolProbeInit
    /\ audio = IdleAudio
    /\ analyzer = IdleAnalyzer

PoolAllocate ==
    \E size \in AllocSizes, alignment \in Alignments :
        LET r == allocate(eq, size, alignment) IN
        /\ probe.calls < MaxPoolCalls
        /\ eq' = r.pool
        /\ probe' = [probe EXCEPT
                        !.calls = @ + 1, !.last = "allocate", !.before = eq,
                        !.ptr = r.ptr, !.size = size, !.alignment = alignment,
                        !.regions = IF probe.last = "allocate" /\ probe.ptr # nullptr
                                    THEN @ \cup {<<probe.ptr, probe.size>>} ELSE @]
        /\ UNCHANGED <<audio, analyzer>>

PoolReset ==
    /\ probe.calls < MaxPoolCalls
    /\ eq' = poolReset(eq)
    /\ probe' = [probe EXCEPT !.calls = @ + 1, !.last = "reset", !.before = eq,
                              !.ptr = nullptr, !.size = 0, !.alignment = 1,
                              !.regions = {}]
    /\ UNCHANGED <<audio, analyzer>>

NextPool ==
    \/ PoolAllocate
    \/ PoolReset

SpecPool == InitPool /\ [][NextPool]_vars

----------------------------------------------------------------------------
(* Properties of the memory pool                                           *)

(* The regions [p, p + n) and [q, m + q) share a byte.                     *)
Overlap(p, n, q, m) == p < q + m /\ q < p + n

(* The request fits behind the bytes in use, computed without a word.      *)
Fits(pool, size, alignment) ==
    ((pool.currentOffset_ + alignment - 1) \div alignment) * alignment + size
        <= pool.poolSize_

(* C23: after any sequence of allocate and reset calls getBytesUsed() <=   *)
(* poolSize and getBytesUsed() + getBytesAvailable() = poolSize; a         *)
(* successful allocate(size, alignment) returns a region inside the pool   *)
(* that starts at a multiple of alignment and overlaps no region returned  *)
(* since the last reset; an allocate that does not fit returns null and    *)
(* leaves getBytesUsed() unchanged; reset() sets getBytesUsed() to 0.      *)
C23_PoolAccounting ==
    /\ getBytesUsed(eq) <= eq.poolSize_
    /\ getBytesUsed(eq) + getBytesAvailable(eq) = eq.poolSize_
    /\ (probe.last = "allocate" /\ probe.ptr # nullptr) =>
          /\ probe.ptr >= eq.pool_
          /\ probe.ptr + probe.size <= eq.pool_ + eq.poolSize_
          /\ probe.ptr % probe.alignment = 0
          /\ \A region \in probe.regions :
                ~Overlap(probe.ptr, probe.size, region[1], region[2])
    /\ (probe.last = "allocate" /\ ~Fits(probe.before, probe.size, probe.alignment)) =>
          /\ probe.ptr = nullptr
          /\ getBytesUsed(eq) = getBytesUsed(probe.before)
    /\ probe.last = "reset" => getBytesUsed(eq) = 0

----------------------------------------------------------------------------
(* MetaFilter<Type, SampleType> (MetaprogrammingDSP.h, 14-103)             *)
(* Samples and coefficients are kept in 1/FineScale.  A filter object is   *)
(* [type, b_, a_, x_, y_], the arrays indexed from 0.                      *)

FineScale == 1000000

(* bufferSize of the test fixture (ModernAudioTests.cpp, 15).              *)
bufferSize == 1024

MetaFilterTypes == {"LowPass", "HighPass", "BandPass", "Notch"}

Sign(x) == IF x < 0 THEN -1 ELSE 1

(* x * y in 1/FineScale, the product formed from the thousands and the     *)
(* units of each factor so that no intermediate value leaves the integers  *)
(* of the checker.                                                         *)
FineTimes(x, y) ==
    LET a  == Abs(x)
        b  == Abs(y)
        ah == a \div 1000
        al == a % 1000
        bh == b \div 1000
        bl == b % 1000
    IN Sign(x) * Sign(y) *
       (ah * bh + (ah * bl + al * bh + (al * bl) \div 1000 + 500) \div 1000)

(* x / y in 1/FineScale for y > 0, by long division, three digits a step.  *)
FineOver(x, y) ==
    LET a  == Abs(x)
        q1 == a \div y
        r1 == a % y
        q2 == (r1 * 1000) \div y
        r2 == (r1 * 1000) % y
        q3 == (r2 * 1000) \div y
    IN Sign(x) * (q1 * FineScale + q2 * 1000 + q3)

(* std::sin and std::cos of 2 * M_PI * freq / sr, in 1/FineScale.          *)
MetaSin(freq, sr) ==
    CASE freq = 100 /\ sr = 44100  -> 14247
      [] freq = 1000 /\ sr = 44100 -> 141994
      [] OTHER                     -> 13090

MetaCos(freq, sr) ==
    CASE freq = 100 /\ sr = 44100  -> 999899
      [] freq = 1000 /\ sr = 44100 -> 989867
      [] OTHER                     -> 999914

(* Lines 43-47: value-initialised arrays.                                  *)
MetaFilterCtor(type) ==
    [type |-> type,
     b_ |-> [i \in 0..2 |-> 0], a_ |-> [i \in 0..2 |-> 0],
     x_ |-> [i \in 0..1 |-> 0], y_ |-> [i \in 0..1 |-> 0]]

(* Lines 49-82.                                                            *)
calculateCoefficients(f, freq, q, sr) ==
    LET sin_omega == MetaSin(freq, sr)
        cos_omega == MetaCos(freq, sr)
        alpha     == FineOver(sin_omega, 2 * q)
        b == CASE f.type = "LowPass" ->
                    <<(FineScale - cos_omega) \div 2, FineScale - cos_omega,
                      (FineScale - cos_omega) \div 2>>
               [] f.type = "HighPass" ->
                    <<(FineScale + cos_omega) \div 2, -(FineScale + cos_omega),
                      (FineScale + cos_omega) \div 2>>
               [] f.type = "BandPass" -> <<alpha, 0, -alpha>>
               [] OTHER -> <<FineScale, -2 * cos_omega, FineScale>>
        a0 == FineScale + alpha
        a1 == -2 * cos_omega
        a2 == FineScale - alpha
    IN [f EXCEPT !.b_ = [i \in 0..2 |-> FineOver(b[i + 1], a0)],
                 !.a_ = [i \in 0..2 |->
                            CASE i = 0 -> FineScale
                              [] i = 1 -> FineOver(a1, a0)
                              [] OTHER -> FineOver(a2, a0)]]

(* Lines 35-37.                                                            *)
setParameters(f, frequency, q, sampleRate) ==
    calculateCoefficients(f, frequency, q, sampleRate)

(* Lines 91-102; returns the filter and the output sample.                 *)
processBiquad(f, input) ==
    LET output == FineTimes(f.b_[0], input) + FineTimes(f.b_[1], f.x_[0])
                    + FineTimes(f.b_[2], f.x_[1])
                    - FineTimes(f.a_[1], f.y_[0]) - FineTimes(f.a_[2], f.y_[1])
    IN [f |-> [f EXCEPT !.x_ = [i \in 0..1 |-> IF i = 0 THEN input ELSE f.x_[0]],
                        !.y_ = [i \in 0..1 |-> IF i = 0 THEN output ELSE f.y_[0]]],
        output |-> output]

(* Lines 24-34: every type dispatches to processBiquad.                    *)
metaProcess(f, input) == processBiquad(f, input)

----------------------------------------------------------------------------
(* Specification of the filter test: a MetaFilter of one of the four       *)
(* types is given parameters once and then fed a constant signal sample by *)
(* sample, as the test's loop does.  probe.samples counts the samples fed, *)
(* probe.sumSquares is the sum the test's calculateRMS forms over the      *)
(* outputs (in SumUnit/FineScale), probe.last the latest output.           *)

SumUnit == 100

MetaSettings ==
    { [frequency |-> 100, q |-> 707000, sampleRate |-> 44100],
      [frequency |-> 1000, q |-> 707000, sampleRate |-> 44100],
      [frequency |-> 100, q |-> 2 * FineScale, sampleRate |-> 48000] }

DcLevels == {FineScale, FineScale \div 2}

MetaProbeInit(level) ==
    [level |-> level, setting |-> [frequency |-> 0, q |-> 0, sampleRate |-> 0],
     samples |-> 0, sumSquares |-> 0, last |-> 0]

InitMeta ==
    /\ \E type \in MetaFilterTypes : eq = MetaFilterCtor(type)
    /\ \E level \in DcLevels : probe = MetaProbeInit(level)
    /\ audio = IdleAudio
    /\ analyzer = IdleAnalyzer

MetaSetParameters ==
    \E s \in MetaSettings :
        /\ probe.setting.frequency = 0
        /\ probe.samples = 0
        /\ eq' = setParameters(eq, s.frequency, s.q, s.sampleRate)
        /\ probe' = [probe EXCEPT !.setting = s]
        /\ UNCHANGED <<audio, analyzer>>

MetaProcess ==
    LET r == metaProcess(eq, probe.level) IN
    /\ probe.samples < bufferSize
    /\ eq' = r.f
    /\ probe' = [probe EXCEPT !.samples = @ + 1,
                              !.sumSquares = @ + FineTimes(r.output, r.output) \div SumUnit,
                              !.last = r.output]
    /\ UNCHANGED <<audio, analyzer>>

NextMeta ==
    \/ MetaSetParameters
    \/ MetaProcess

SpecMeta == InitMeta /\ [][NextMeta]_vars

----------------------------------------------------------------------------
(* Properties of the filter test                                           *)

(* C24: a HighPass biquad set to (100 Hz, Q 0.707, 44100 Hz) and fed the   *)
(* constant 1.0 for 1024 samples from zero state gives an output of RMS    *)
(* below 0.1, i.e. a sum of squares below 0.01 * 1024; its coefficients    *)
(* satisfy b0 + b1 + b2 = 0 (here up to the rounding of the three          *)
(* quotients).                                                             *)
C24_HighPassRejectsDc ==
    (/\ eq.type = "HighPass"
     /\ probe.setting = [frequency |-> 100, q |-> 707000, sampleRate |-> 44100]
     /\ probe.level = FineScale)
        => /\ Abs(eq.b_[0] + eq.b_[1] + eq.b_[2]) <= 2
           /\ probe.samples = bufferSize
                 => probe.sumSquares < (bufferSize * FineScale) \div (SumUnit * 100)

----------------------------------------------------------------------------
(* Properties of a performFFT pass                                         *)

(* The j-th sample since the last reset (it has the value j), or the zero  *)
(* the buffer held before any sample arrived.                              *)
Arrived(j) == IF j >= 1 THEN j ELSE 0

(* C25: at a performFFT pass working-buffer element i (0 <= i < fftSize)   *)
(* is inputBuffer[(inputBufferIndex + i) mod fftSize] * window[i], so the  *)
(* samples enter in arrival order, element fftSize-1 being the latest      *)
(* sample and element 0 the oldest retained one (an initial zero when      *)
(* fewer than fftSize samples have arrived); elements fftSize..2*fftSize-1 *)
(* are zero, and the pass leaves inputBuffer and inputBufferIndex alone.   *)
C25_WindowedArrivalOrder ==
    LET N     == analyzer.fftSize
        kstar == probe.passes * Hop
        pass  == performFFT(analyzer, SpectrumDb(1, N \div 2), 0, TRUE)
    IN /\ probe.passes > 0 =>
             /\ Len(analyzer.fftBuffer) = 2 * N
             /\ \A i \in 0..(N - 1) :
                   analyzer.fftBuffer[i + 1] =
                       Arrived(kstar - N + 1 + i) * analyzer.window[i + 1]
             /\ \A i \in N..(2 * N - 1) : analyzer.fftBuffer[i + 1] = 0
       /\ pass.inputBuffer = analyzer.inputBuffer
       /\ pass.inputBufferIndex = analyzer.inputBufferIndex
       /\ \A i \in 0..(N - 1) :
             pass.fftBuffer[i + 1] =
                 analyzer.inputBuffer[((analyzer.inputBufferIndex + i) % N) + 1]
                     * analyzer.window[i + 1]
       /\ \A i \in N..(2 * N - 1) : pass.fftBuffer[i + 1] = 0

(* The latest pass ran with the write cursor at 12 of 16: the four oldest  *)
(* elements are initial zeros, the others samples 1 to 12 in order.        *)
C25_Witness ==
    /\ probe.last = "processAudioBlock"
    /\ analyzer.fftSize = 16
    /\ probe.passes * Hop = 12
    /\ analyzer.fftBuffer[4] = 0
    /\ analyzer.fftBuffer[6] = 2 * analyzer.window[6]
    /\ analyzer.fftBuffer[15] = 11 * analyzer.window[15]
    /\ analyzer.window[15] > 0

(* The peak-hold track a pass starts from: entries that are missing are    *)
(* created at -100 dB (lines 216-217).                                     *)
HeldBefore(a, i) ==
    IF i <= Len(a.peakHoldBins) THEN a.peakHoldBins[i] ELSE MinusInfinityDb

(* C26: with peak hold enabled a pass sets peakHoldBins[i] to              *)
(* max(peakHoldBins[i] * 0.999, magnitudeDb[i]) for every bin; the held    *)
(* value rises at once to a larger magnitude and, whenever the magnitude   *)
(* is below the held value, the new held value is not greater than the     *)
(* previous one; with peak hold disabled the pass leaves peakHoldBins      *)
(* unchanged.                                                              *)
C26_PeakHoldDecays ==
    [][ probe'.fftTotal = probe.fftTotal + 1 =>
          LET nb   == analyzer.fftSize \div 2
              mags == SpectrumDb(ToneAt(probe.signal, probe.fftTotal + 1), nb)
          IN IF analyzer.peakHoldEnabled
             THEN \A i \in 1..nb :
                     /\ analyzer'.peakHoldBins[i] =
                           Max((HeldBefore(analyzer, i) * PeakDecay) \div 1000, mags[i])
                     /\ mags[i] >= HeldBefore(analyzer, i)
                           => analyzer'.peakHoldBins[i] >= mags[i]
                     /\ mags[i] < HeldBefore(analyzer, i)
                           => analyzer'.peakHoldBins[i] <= HeldBefore(analyzer, i)
             ELSE analyzer'.peakHoldBins = analyzer.peakHoldBins
    ]_vars

\* C27: setPeakHold(false) replaces peakHoldBins by fftSize/2 entries equal
\* to the floor value to which reset() sets peakHoldBins, so that disabling
\* peak hold and calling reset() leave the track in the same state;
\* setPeakHold(true) leaves peakHoldBins unchanged.
C27_DisableEqualsReset ==
    /\ setPeakHold(analyzer, FALSE).peakHoldBins = reset(analyzer).peakHoldBins
    /\ Len(setPeakHold(analyzer, FALSE).peakHoldBins) = analyzer.fftSize \div 2
    /\ setPeakHold(analyzer, TRUE).peakHoldBins = analyzer.peakHoldBins

(* Stereo blocks that agree on channel 1 and differ on channel 0.          *)
StereoBlocks ==
    { << <<200, -100>>, <<-60, 120>> >>,
      << <<0, 0>>, <<-60, 120>> >> }

(* C28: in processBlock on a buffer of two or more channels the samples    *)
(* written to a channel depend only on that channel's own input and the    *)
(* band configuration: two runs that agree on channel c's input and differ *)
(* in another channel's samples give the same output on channel c.         *)
C28_ChannelsIndependent ==
    \A first, second \in StereoBlocks :
        \A c \in 1..2 :
            first[c] = second[c]
                => processBlock(eq, first).buffer[c] = processBlock(eq, second).buffer[c]

(* Lines 238-242 for bin i (source index): the five comparisons on         *)
(* smoothedBins that precede the first read of binFrequencies[i].          *)
ReadsBinFrequency(a, i) ==
    /\ a.smoothedBins[i + 1] > a.smoothedBins[i]
    /\ a.smoothedBins[i + 1] > a.smoothedBins[i + 2]
    /\ a.smoothedBins[i + 1] > a.smoothedBins[i - 1]
    /\ a.smoothedBins[i + 1] > a.smoothedBins[i + 3]
    /\ a.smoothedBins[i + 1] > MinPeakMagnitude

(* C29: in every single-threaded sequence of construction, prepare,        *)
(* setFFTSize and processAudioBlock calls, processAudioBlock before the    *)
(* first prepare and after an enlarging setFFTSize included, every index   *)
(* used to read binFrequencies, smoothedBins, peakHoldBins, inputBuffer,   *)
(* window or fftBuffer in performFFT and detectPeaks is smaller than the   *)
(* length of the vector read.                                              *)
C29_ReadsInBounds ==
    [][ probe'.fftTotal > probe.fftTotal =>
          LET a  == analyzer'
              nb == a.fftSize \div 2
          IN /\ Len(a.inputBuffer) >= a.fftSize
             /\ Len(a.window) >= a.fftSize
             /\ Len(a.fftBuffer) >= 2 * a.fftSize
             /\ Len(a.smoothedBins) >= nb
             /\ a.peakHoldEnabled => Len(a.peakHoldBins) >= nb
             /\ \A i \in 2..(Len(a.smoothedBins) - 3) :
                   ReadsBinFrequency(a, i) => i < Len(a.binFrequencies)
    ]_vars

----------------------------------------------------------------------------
(* SpectrumAnalyzer used by two threads: the audio thread runs performFFT  *)
(* passes, the UI thread calls getPeaks (paint iterates peaks the same     *)
(* way).  There is no lock and no atomic in the class.  `analyzer` is the  *)
(* shared object, `audio` holds the position of each thread, `probe` what  *)
(* the UI thread received and the lists that are complete results.         *)

(* An entry read from storage the other thread no longer holds there.      *)
IndeterminatePeaks == {<<g, MinusInfinityDb>> : g \in GarbageFreqs}

DetectIdle == [pc |-> "idle", i |-> 0, tieFirst |-> FALSE]

CopyIdle == [pc |-> "idle", n |-> 0]

ThreadSpectra ==
    { [spacing |-> 3, count |-> 20, pattern |-> 1, shoulder |-> 0],
      [spacing |-> 4, count |-> 4,  pattern |-> 3, shoulder |-> 1] }

(* Lines 187-223: performFFT up to the call of detectPeaks.                *)
performFFTBeforeDetectPeaks(a, magsDb) ==
    [performFFT(a, magsDb, 0, FALSE) EXCEPT !.peaks = a.peaks]

(* Lines 228-270, one statement at a time: peaks.clear(), one iteration of *)
(* the scan loop, std::sort, the truncation.                               *)
detectPeaksStep(a, t) ==
    CASE t.pc = "clear" ->
           [a |-> [a EXCEPT !.peaks = << >>],
            t |-> [t EXCEPT !.pc = IF 2 < Len(a.smoothedBins) - 2
                                   THEN "scan" ELSE "sort",
                            !.i = 2]]
      [] t.pc = "scan" ->
           [a |-> [a EXCEPT !.peaks = ScanBin(a, t.i, 0, a.peaks)],
            t |-> [t EXCEPT !.pc = IF t.i + 1 < Len(a.smoothedBins) - 2
                                   THEN "scan" ELSE "sort",
                            !.i = t.i + 1]]
      [] t.pc = "sort" ->
           [a |-> [a EXCEPT !.peaks = SortPeaks(a.peaks, t.tieFirst)],
            t |-> [t EXCEPT !.pc = "resize"]]
      [] OTHER ->
           [a |-> [a EXCEPT !.peaks = KeepTop(a.peaks)],
            t |-> DetectIdle]

(* Line 158: the copy of peaks made by the return statement, n being the   *)
(* length found when the copy began.  An entry the vector no longer has is *)
(* indeterminate.                                                          *)
getPeaks(a, n, garbage) ==
    [k \in 1..n |-> IF k <= Len(a.peaks) THEN a.peaks[k] ELSE garbage]

ThreadsProbeInit ==
    [passes |-> 0, reads |-> 0, observed |-> << >>, complete |-> {<< >>},
     last |-> "prepare"]

InitThreads ==
    /\ \E sr \in {3200, 44100} :
          analyzer = prepare(setPeakHold(setSmoothing(SpectrumAnalyzerCtor(PeakOrder), 0),
                                         FALSE), sr)
    /\ audio = [detect |-> DetectIdle, copy |-> CopyIdle]
    /\ probe = ThreadsProbeInit
    /\ eq = IdleEQ

(* The audio thread enters performFFT and reaches detectPeaks.             *)
ThreadsPass ==
    /\ audio.detect.pc = "idle"
    /\ probe.passes < MaxThreadPasses
    /\ \E s \in ThreadSpectra, tieFirst \in BOOLEAN :
          LET magsDb == ToneSpectrum(analyzer.fftSize \div 2, s.spacing, s.count,
                                     s.pattern, s.shoulder)
              a      == performFFTBeforeDetectPeaks(analyzer, magsDb)
          IN /\ analyzer' = a
             /\ audio' = [audio EXCEPT !.detect = [pc |-> "clear", i |-> 0,
                                                   tieFirst |-> tieFirst]]
             /\ probe' = [probe EXCEPT !.passes = @ + 1,
                                       !.complete = @ \cup {detectPeaks(a, 0, tieFirst).peaks},
                                       !.last = "performFFT"]
    /\ UNCHANGED eq

ThreadsDetectStep ==
    /\ audio.detect.pc # "idle"
    /\ LET r == detectPeaksStep(analyzer, audio.detect) IN
       /\ analyzer' = r.a
       /\ audio' = [audio EXCEPT !.detect = r.t]
    /\ probe' = [probe EXCEPT !.last = "detectPeaks"]
    /\ UNCHANGED eq

(* The UI thread enters getPeaks and the copy starts.                      *)
ThreadsGetPeaksCall ==
    /\ audio.copy.pc = "idle"
    /\ probe.reads < MaxReads
    /\ audio' = [audio EXCEPT !.copy = [pc |-> "copying", n |-> Len(analyzer.peaks)]]
    /\ probe' = [probe EXCEPT !.last = "getPeaksCall"]
    /\ UNCHANGED <<analyzer, eq>>

(* The copy completes and getPeaks returns it.                             *)
ThreadsGetPeaksReturn ==
    /\ audio.copy.pc = "copying"
    /\ \E garbage \in IndeterminatePeaks :
          probe' = [probe EXCEPT !.reads = @ + 1,
                                 !.observed = getPeaks(analyzer, audio.copy.n, garbage),
                                 !.last = "getPeaks"]
    /\ audio' = [audio EXCEPT !.copy = CopyIdle]
    /\ UNCHANGED <<analyzer, eq>>

NextThreads ==
    \/ ThreadsPass
    \/ ThreadsDetectStep
    \/ ThreadsGetPeaksCall
    \/ ThreadsGetPeaksReturn

SpecThreads == InitThreads /\ [][NextThreads]_vars

(* C30: with processAudioBlock on the audio thread and getPeaks on the UI  *)
(* thread, interleaved statement by statement, every list the UI thread    *)
(* receives is the complete result of one detectPeaks pass: at most 10     *)
(* entries, sorted by non-increasing magnitude, frequencies pairwise at    *)
(* least 100 Hz apart; never a cleared, partially filled, unsorted or not  *)
(* yet truncated list.                                                     *)
C30_ReaderSeesCompletePass ==
    probe.last = "getPeaks" =>
        /\ probe.observed \in probe.complete
        /\ Len(probe.observed) <= MaxPeaks
        /\ \A k \in 1..(Len(probe.observed) - 1) :
              probe.observed[k][2] >= probe.observed[k + 1][2]
        /\ \A k, l \in 1..Len(probe.observed) :
              k # l => Abs(probe.observed[k][1] - probe.observed[l][1])
                          >= MinPeakSeparation * FreqScale

====
